---- MODULE Spec2Model ----
(***************************************************************************)
(* Enrollment, profile, attendance and grade subsystems of the             *)
(* school-management backend.                                              *)
(*                                                                         *)
(* The store holds User, Student, Teacher, Classroom, Grade and Attendance *)
(* documents.  Requests are                                                *)
(* served by cooperative handlers: every `await` of a store read or write  *)
(* is a suspension point, so the steps of different requests interleave.   *)
(*                                                                         *)
(* StudentService works on Mongoose documents and writes them back with    *)
(* save(): an array changed by push() is written as an atomic $push that   *)
(* increments __v, an array replaced by assignment is written as a $set    *)
(* guarded by the __v that was read (a stale __v makes save() fail).       *)
(* ClassroomService writes through a session with a multi-document         *)
(* transaction; its findById reads are issued without the session, so they *)
(* see the committed store and are not part of the transaction.  A write   *)
(* outside a transaction waits while an open transaction holds the         *)
(* document.                                                               *)
(***************************************************************************)
EXTENDS Integers, Sequences, FiniteSets, TLC

\* ---------------------------------------------------------------- bounds
MaxCalls == 3
MaxLen == 3

\* ------------------------------------------------------------ identifiers
Procs == {"p1", "p2"}
StudentIds == {"s1", "s2"}
ClassroomIds == {"c1", "c2"}
TeacherIds == {"t1", "t2"}
UserIds == {"u1", "u2", "u3"}
GradeIds == {"g1", "g2", "g3"}
AttendanceIds == {"a1", "a2", "a3", "a4"}

\* maxCapacity is an optional Number of the Classroom schema; Undefined stands
\* for the field being absent.
Undefined == 0 - 1
CapValues == {Undefined, 0, 1, 2}

VARIABLES
  classrooms,   \* Classroom collection: id -> document
  students,     \* Student collection: id -> document
  teachers,     \* Teacher collection: id -> document
  allocated,    \* document ids handed out so far
  users,        \* User collection: id -> document
  grades,       \* Grade collection: id -> document
  attendances,  \* Attendance collection: id -> document
  pc,           \* position of each request handler
  req,          \* the request each handler serves
  stuSnap,      \* `student` local of the handler
  clsSnap,      \* `classroom` local of the handler
  usrSnap,      \* `user` local of the handler
  attSnap,      \* `attendance` local of the handler
  tchSnap,      \* `teacher` local of the handler
  attendanceRecords, \* the documents Attendance.find returned to the handler
  before,       \* User, Grade and Attendance collections when the call started
  pending,      \* save() promises of Promise.all still in flight
  saved,        \* save() promises that were fulfilled
  txn,          \* the handler's session transaction
  result,       \* outcome reported to the caller
  overlap,      \* calls that were in flight when this call started
  calls,        \* number of calls started
  probe,        \* classroom document handed to isAtCapacity
  probeResult,  \* what isAtCapacity returned for it
  answer        \* what a GradeService query returned

vars == <<classrooms, students, teachers, allocated, users, grades, attendances,
          pc, req, stuSnap, clsSnap, usrSnap, attSnap, tchSnap, attendanceRecords,
          before,
          pending, saved, txn, result, overlap, calls, probe, probeResult, answer>>

store == <<classrooms, students, teachers, allocated>>
locals == <<pc, req, stuSnap, clsSnap, pending, saved, txn, result, overlap, calls>>
probes == <<probe, probeResult>>
ledger == <<users, grades, attendances>>
scratch == <<usrSnap, attSnap, tchSnap, attendanceRecords>>
rest == <<ledger, scratch, before, answer>>
\* What the handlers outside the enrollment subsystem leave alone.
aside == <<pending, overlap, calls, probes, before, answer>>

\* -------------------------------------------------------------- documents
NoClassroom ==
  [exists |-> FALSE, teacherId |-> "none", students |-> <<>>,
   maxCapacity |-> Undefined, v |-> 0]

NoStudent == [exists |-> FALSE, userId |-> "none", classrooms |-> <<>>, v |-> 0]

NoTeacher == [exists |-> FALSE, userId |-> "none", classrooms |-> <<>>]

NewStudent(u) == [NoStudent EXCEPT !.exists = TRUE, !.userId = u]

NewTeacher(u) == [NoTeacher EXCEPT !.exists = TRUE, !.userId = u]

\* role is one of the three values the User schema and updateUserRole accept.
Roles == {"student", "teacher", "admin"}

NoUser == [exists |-> FALSE, role |-> "none"]

NoGrade ==
  [exists |-> FALSE, studentId |-> "none", classroomId |-> "none",
   score |-> 0, maxScore |-> 0, weightage |-> 0, assignmentType |-> "none"]

\* Nothing returned by a GradeService query yet.
NoAnswer == [op |-> "none"]

\* A Date: the calendar day and the hour of the day.
NoDate == [day |-> 0, hour |-> 0]

\* An Attendance document; records is the array of per-student sub-records
\* [studentId, status].
NoAttendance ==
  [exists |-> FALSE, classroomId |-> "none", date |-> NoDate, records |-> <<>>, v |-> 0]

NewClassroom(t, cap) ==
  [exists |-> TRUE, teacherId |-> t, students |-> <<>>, maxCapacity |-> cap, v |-> 0]

\* Array helpers: includes on a Mongoose id array (ids compare by value), $push
\* (duplicates are kept) and $pull (every occurrence goes).
Includes(arr, x) == \E i \in DOMAIN arr : arr[i] = x

Push(arr, x) == Append(arr, x)

Pull(arr, x) == SelectSeq(arr, LAMBDA y : y /= x)

\* The virtual enrollmentCount of a classroom document.
enrollmentCount(doc) == Len(doc.students)

\* Classroom.methods.isAtCapacity: `!this.maxCapacity` is true for an absent
\* field and for the number 0.
isAtCapacity(doc) ==
  IF doc.maxCapacity = Undefined \/ doc.maxCapacity = 0
  THEN FALSE
  ELSE Len(doc.students) >= doc.maxCapacity

\* ------------------------------------------------------------ transactions
\* A session transaction buffers its writes until commitTransaction.  Its
\* snapshot is taken by its first operation; a document written by somebody
\* else after that is stale for it, and writing a stale document or one that
\* another open transaction has written fails with a WriteConflict.
NoTxn == [open |-> FALSE, ops |-> <<>>, stale |-> {}]

Key(coll, id) == [coll |-> coll, id |-> id]

WriteOp(coll, id, kind, val, cap) ==
  [coll |-> coll, id |-> id, kind |-> kind, val |-> val, cap |-> cap]

Written(p) == {Key(txn[p].ops[i].coll, txn[p].ops[i].id) : i \in DOMAIN txn[p].ops}

Locked(k) == \E q \in Procs : k \in Written(q)

LockedByOther(p, k) == \E q \in Procs \ {p} : k \in Written(q)

Conflicts(p, ks) == \E k \in ks : LockedByOther(p, k) \/ k \in txn[p].stale

\* Other open transactions see the documents in ks become stale.
MarkStale(p, ks) ==
  [q \in Procs |->
    IF q /= p /\ txn[q].open
    THEN [txn[q] EXCEPT !.stale = @ \cup ks]
    ELSE txn[q]]

\* ------------------------------------------------------------------ calls
StudentOps == {"enrollInClassroom", "withdrawFromClassroom"}
ClassroomOps == {"addStudentToClassroom", "removeStudentFromClassroom", "deleteClassroom"}
EnrollOps == {"enrollInClassroom", "addStudentToClassroom"}
ProfileOps ==
  {"createStudent", "createTeacher", "deleteStudent", "deleteTeacher", "updateUserRole"}

\* Nothing recorded about the collections at the start of a call.
NoBefore == [users |-> <<>>, grades |-> <<>>, attendances |-> <<>>]
WithdrawOps == {"withdrawFromClassroom", "removeStudentFromClassroom"}

NoReq == [op |-> "none", studentId |-> "none", classroomId |-> "none",
          teacherId |-> "none", field |-> "none", maxCapacity |-> Undefined,
          students |-> <<>>, attendanceId |-> "none", date |-> NoDate,
          records |-> <<>>, status |-> "none", userId |-> "none",
          role |-> "none", valid |-> TRUE]

Entry(op) ==
  CASE op = "enrollInClassroom" -> "enroll_findStudent"
    [] op = "withdrawFromClassroom" -> "withdraw_findStudent"
    [] op = "addStudentToClassroom" -> "add_findClassroom"
    [] op = "removeStudentFromClassroom" -> "remove_findClassroom"
    [] op = "deleteClassroom" -> "delete_findClassroom"
    [] op = "createClassroom" -> "create_create"
    [] op = "updateClassroom" -> "update_findByIdAndUpdate"
    [] op = "createAttendance" -> "attendance_findClassroom"
    [] op \in {"createStudent", "createTeacher"} -> "profile_findUser"
    [] op = "deleteStudent" -> "deleteStudent_findById"
    [] op = "deleteTeacher" -> "deleteTeacher_findById"
    [] op = "updateUserRole" -> "updateUserRole_findByIdAndUpdate"
    [] op = "deleteUser" -> "deleteUser_findById"
    [] op \in {"updateStudentAttendance", "addStudentToAttendance",
               "removeStudentFromAttendance"} -> "attendance_findById"

Idle(p) == pc[p] \in {"idle", "done"}

InFlight == {q \in Procs : ~Idle(q)}

\* A handler is entered with request r: its locals are fresh.
Enter(p, r) ==
  /\ Idle(p)
  /\ calls < MaxCalls
  /\ calls' = calls + 1
  /\ pc' = [pc EXCEPT ![p] = Entry(r.op)]
  /\ req' = [req EXCEPT ![p] = r]
  /\ stuSnap' = [stuSnap EXCEPT ![p] = NoStudent]
  /\ clsSnap' = [clsSnap EXCEPT ![p] = NoClassroom]
  /\ usrSnap' = [usrSnap EXCEPT ![p] = NoUser]
  /\ attSnap' = [attSnap EXCEPT ![p] = NoAttendance]
  /\ tchSnap' = [tchSnap EXCEPT ![p] = NoTeacher]
  /\ attendanceRecords' = [attendanceRecords EXCEPT ![p] = <<>>]
  /\ before' = [before EXCEPT ![p] =
       IF r.op \in ProfileOps
       THEN [users |-> users, grades |-> grades, attendances |-> attendances]
       ELSE NoBefore]
  /\ pending' = [pending EXCEPT ![p] = {}]
  /\ saved' = [saved EXCEPT ![p] = {}]
  /\ txn' = [txn EXCEPT ![p] = NoTxn]
  /\ result' = [result EXCEPT ![p] = "none"]
  /\ overlap' = [q \in Procs |-> IF q = p THEN InFlight ELSE overlap[q] \ {p}]
  /\ UNCHANGED <<store, ledger, probes, answer>>

\* The handler throws (or returns) with outcome r.
Finish(p, r) ==
  /\ pc' = [pc EXCEPT ![p] = "done"]
  /\ result' = [result EXCEPT ![p] = r]

\* session.abortTransaction() of a catch block: the buffered writes are dropped.
Abort(p) == txn' = [txn EXCEPT ![p] = NoTxn]

Goto(p, label) == pc' = [pc EXCEPT ![p] = label]

\* ------------------------------------------------------------------- Init
InitStore ==
  /\ \E cap \in CapValues \ {0} :
       classrooms = [c \in ClassroomIds |->
                       IF c = "c1" THEN NewClassroom("t1", cap) ELSE NoClassroom]
  /\ students = [s \in StudentIds |-> NewStudent(IF s = "s1" THEN "u1" ELSE "u2")]
  /\ teachers = [t \in TeacherIds |->
                   IF t = "t1" THEN [NewTeacher("u3") EXCEPT !.classrooms = <<"c1">>]
                   ELSE NoTeacher]
  /\ allocated = {"c1"}

\* The collections an enrollment scenario does not touch.
InitLedger ==
  /\ users = [u \in UserIds |-> [exists |-> TRUE, role |-> "student"]]
  /\ grades = [g \in GradeIds |-> NoGrade]
  /\ attendances = [a \in AttendanceIds |-> NoAttendance]

InitLocals ==
  /\ pc = [p \in Procs |-> "idle"]
  /\ req = [p \in Procs |-> NoReq]
  /\ stuSnap = [p \in Procs |-> NoStudent]
  /\ clsSnap = [p \in Procs |-> NoClassroom]
  /\ usrSnap = [p \in Procs |-> NoUser]
  /\ attSnap = [p \in Procs |-> NoAttendance]
  /\ tchSnap = [p \in Procs |-> NoTeacher]
  /\ attendanceRecords = [p \in Procs |-> <<>>]
  /\ before = [p \in Procs |-> NoBefore]
  /\ pending = [p \in Procs |-> {}]
  /\ saved = [p \in Procs |-> {}]
  /\ txn = [p \in Procs |-> NoTxn]
  /\ result = [p \in Procs |-> "none"]
  /\ overlap = [p \in Procs |-> {}]
  /\ calls = 0

InitProbes ==
  /\ probe = NoClassroom
  /\ probeResult = "none"
  /\ answer = NoAnswer

Init == InitStore /\ InitLedger /\ InitLocals /\ InitProbes

\* ----------------------------------------------------------- StudentService
\* A client calls enrollInClassroom or withdrawFromClassroom for a student and
\* a classroom id.
CallStudentService(p) ==
  \E op \in StudentOps, s \in StudentIds, c \in allocated \cap ClassroomIds :
    Enter(p, [NoReq EXCEPT !.op = op, !.studentId = s, !.classroomId = c])

\* Student.findById of enrollInClassroom and withdrawFromClassroom.
student_findStudent(p) ==
  /\ pc[p] \in {"enroll_findStudent", "withdraw_findStudent"}
  /\ stuSnap' = [stuSnap EXCEPT ![p] = students[req[p].studentId]]
  /\ IF ~students[req[p].studentId].exists
     THEN Finish(p, "NotFound")
     ELSE /\ Goto(p, IF pc[p] = "enroll_findStudent"
                     THEN "enroll_findClassroom" ELSE "withdraw_findClassroom")
          /\ UNCHANGED result
  /\ UNCHANGED <<store, req, clsSnap, pending, saved, txn, overlap, calls, probes, rest>>

\* enrollInClassroom: Classroom.findById, the two checks, then both documents
\* are changed in memory and their save() promises are started.
enroll_findClassroom(p) ==
  LET doc == classrooms[req[p].classroomId] IN
  /\ pc[p] = "enroll_findClassroom"
  /\ clsSnap' = [clsSnap EXCEPT ![p] = doc]
  /\ IF ~doc.exists THEN Finish(p, "NotFound") /\ UNCHANGED pending
     ELSE IF Includes(doc.students, req[p].studentId)
       THEN Finish(p, "Conflict") /\ UNCHANGED pending
     ELSE IF isAtCapacity(doc)
       THEN Finish(p, "CapacityExceeded") /\ UNCHANGED pending
     ELSE /\ Goto(p, "enroll_save")
          /\ pending' = [pending EXCEPT ![p] = {"classroom", "student"}]
          /\ UNCHANGED result
  /\ UNCHANGED <<store, req, stuSnap, saved, txn, overlap, calls, probes, rest>>

\* withdrawFromClassroom: Classroom.findById, the enrolled check, then both
\* arrays are replaced by their filtered copies and the saves are started.
withdraw_findClassroom(p) ==
  LET doc == classrooms[req[p].classroomId] IN
  /\ pc[p] = "withdraw_findClassroom"
  /\ clsSnap' = [clsSnap EXCEPT ![p] = doc]
  /\ IF ~doc.exists THEN Finish(p, "NotFound") /\ UNCHANGED pending
     ELSE IF ~Includes(doc.students, req[p].studentId)
       THEN Finish(p, "Conflict") /\ UNCHANGED pending
     ELSE /\ Goto(p, "withdraw_save")
          /\ pending' = [pending EXCEPT ![p] = {"classroom", "student"}]
          /\ UNCHANGED result
  /\ UNCHANGED <<store, req, stuSnap, saved, txn, overlap, calls, probes, rest>>

\* Promise.all settles when both save() promises have: success only if both
\* were fulfilled.
Settle(p, pend, sav) ==
  /\ pending' = [pending EXCEPT ![p] = pend]
  /\ saved' = [saved EXCEPT ![p] = sav]
  /\ IF pend = {}
     THEN Finish(p, IF sav = {"classroom", "student"} THEN "ok" ELSE "WriteError")
     ELSE UNCHANGED <<pc, result>>

\* classroom.save() after students.push(studentId): $push with $inc of __v,
\* matched by _id alone; it fails if the document is gone.
enroll_saveClassroom(p) ==
  LET c == req[p].classroomId
      doc == classrooms[c] IN
  /\ pc[p] = "enroll_save"
  /\ "classroom" \in pending[p]
  /\ ~Locked(Key("classroom", c))
  /\ IF doc.exists
     THEN /\ classrooms' = [classrooms EXCEPT ![c] =
               [doc EXCEPT !.students = Push(@, req[p].studentId), !.v = @ + 1]]
          /\ txn' = MarkStale(p, {Key("classroom", c)})
          /\ Settle(p, pending[p] \ {"classroom"}, saved[p] \cup {"classroom"})
     ELSE /\ UNCHANGED <<classrooms, txn>>
          /\ Settle(p, pending[p] \ {"classroom"}, saved[p])
  /\ UNCHANGED <<students, teachers, allocated, req, stuSnap, clsSnap,
                 overlap, calls, probes, rest>>

\* student.save() after classrooms.push(classroomId).
enroll_saveStudent(p) ==
  LET s == req[p].studentId
      doc == students[s] IN
  /\ pc[p] = "enroll_save"
  /\ "student" \in pending[p]
  /\ ~Locked(Key("student", s))
  /\ IF doc.exists
     THEN /\ students' = [students EXCEPT ![s] =
               [doc EXCEPT !.classrooms = Push(@, req[p].classroomId), !.v = @ + 1]]
          /\ txn' = MarkStale(p, {Key("student", s)})
          /\ Settle(p, pending[p] \ {"student"}, saved[p] \cup {"student"})
     ELSE /\ UNCHANGED <<students, txn>>
          /\ Settle(p, pending[p] \ {"student"}, saved[p])
  /\ UNCHANGED <<classrooms, teachers, allocated, req, stuSnap, clsSnap,
                 overlap, calls, probes, rest>>

\* classroom.save() of a withdrawal writing the filtered array whatever the
\* stored __v is.
withdraw_saveClassroom_unversioned(p) ==
  LET c == req[p].classroomId
      doc == classrooms[c] IN
  /\ pc[p] = "withdraw_save"
  /\ "classroom" \in pending[p]
  /\ ~Locked(Key("classroom", c))
  /\ IF doc.exists
     THEN /\ classrooms' = [classrooms EXCEPT ![c] =
               [doc EXCEPT !.students = Pull(clsSnap[p].students, req[p].studentId),
                           !.v = @ + 1]]
          /\ txn' = MarkStale(p, {Key("classroom", c)})
          /\ Settle(p, pending[p] \ {"classroom"}, saved[p] \cup {"classroom"})
     ELSE /\ UNCHANGED <<classrooms, txn>>
          /\ Settle(p, pending[p] \ {"classroom"}, saved[p])
  /\ UNCHANGED <<students, teachers, allocated, req, stuSnap, clsSnap,
                 overlap, calls, probes, rest>>

\* classroom.save() after `classroom.students = classroom.students.filter(..)`:
\* $set of the whole array, matched by _id and the __v that was read.
withdraw_saveClassroom(p) ==
  LET c == req[p].classroomId
      doc == classrooms[c] IN
  /\ pc[p] = "withdraw_save"
  /\ "classroom" \in pending[p]
  /\ ~Locked(Key("classroom", c))
  /\ IF doc.exists /\ doc.v = clsSnap[p].v
     THEN /\ classrooms' = [classrooms EXCEPT ![c] =
               [doc EXCEPT !.students = Pull(clsSnap[p].students, req[p].studentId),
                           !.v = @ + 1]]
          /\ txn' = MarkStale(p, {Key("classroom", c)})
          /\ Settle(p, pending[p] \ {"classroom"}, saved[p] \cup {"classroom"})
     ELSE /\ UNCHANGED <<classrooms, txn>>
          /\ Settle(p, pending[p] \ {"classroom"}, saved[p])
  /\ UNCHANGED <<students, teachers, allocated, req, stuSnap, clsSnap,
                 overlap, calls, probes, rest>>

\* student.save() after `student.classrooms = student.classrooms.filter(..)`;
\* a filtered copy equal to the array leaves the document unmodified and
\* save() then writes nothing.
withdraw_saveStudent(p) ==
  LET s == req[p].studentId
      doc == students[s]
      filtered == Pull(stuSnap[p].classrooms, req[p].classroomId) IN
  /\ pc[p] = "withdraw_save"
  /\ "student" \in pending[p]
  /\ ~Locked(Key("student", s))
  /\ IF filtered = stuSnap[p].classrooms
     THEN /\ UNCHANGED <<students, txn>>
          /\ Settle(p, pending[p] \ {"student"},
                    IF doc.exists THEN saved[p] \cup {"student"} ELSE saved[p])
     ELSE IF doc.exists /\ doc.v = stuSnap[p].v
     THEN /\ students' = [students EXCEPT ![s] =
               [doc EXCEPT !.classrooms = filtered, !.v = @ + 1]]
          /\ txn' = MarkStale(p, {Key("student", s)})
          /\ Settle(p, pending[p] \ {"student"}, saved[p] \cup {"student"})
     ELSE /\ UNCHANGED <<students, txn>>
          /\ Settle(p, pending[p] \ {"student"}, saved[p])
  /\ UNCHANGED <<classrooms, teachers, allocated, req, stuSnap, clsSnap,
                 overlap, calls, probes, rest>>

StudentServiceStep(p) ==
  \/ student_findStudent(p)
  \/ enroll_findClassroom(p)
  \/ enroll_saveClassroom(p)
  \/ enroll_saveStudent(p)
  \/ withdraw_findClassroom(p)
  \/ withdraw_saveClassroom(p)
  \/ withdraw_saveStudent(p)

\* ---------------------------------------------------------- ClassroomService
\* A client calls addStudentToClassroom, removeStudentFromClassroom or
\* deleteClassroom.
CallClassroomService(p) ==
  \/ \E op \in ClassroomOps \ {"deleteClassroom"}, s \in StudentIds,
        c \in allocated \cap ClassroomIds :
       Enter(p, [NoReq EXCEPT !.op = op, !.studentId = s, !.classroomId = c])
  \/ \E c \in allocated \cap ClassroomIds :
       Enter(p, [NoReq EXCEPT !.op = "deleteClassroom", !.classroomId = c])

\* A write issued with { session }: it is buffered in the transaction, whose
\* snapshot it opens; a WriteConflict throws into the catch block.
TxnWrite(p, ks, ops, next) ==
  IF Conflicts(p, ks)
  THEN Finish(p, "WriteConflict") /\ Abort(p)
  ELSE /\ txn' = [txn EXCEPT ![p] =
            [open |-> TRUE, ops |-> txn[p].ops \o ops, stale |-> txn[p].stale]]
       /\ Goto(p, next)
       /\ UNCHANGED result

\* The documents of `ids` that an update inside p's transaction matches: those
\* that exist, and those deleted by somebody else after p's snapshot.
Matched(p, coll, docs, ids) ==
  {Key(coll, i) : i \in {j \in ids : docs[j].exists \/ Key(coll, j) \in txn[p].stale}}

RECURSIVE ApplyOps(_, _)
ApplyOp(db, o) ==
  CASE o.coll = "classroom" /\ o.kind = "push" ->
         [db EXCEPT !.classrooms[o.id].students = Push(@, o.val)]
    [] o.coll = "classroom" /\ o.kind = "pull" ->
         [db EXCEPT !.classrooms[o.id].students = Pull(@, o.val)]
    [] o.coll = "classroom" /\ o.kind = "delete" ->
         [db EXCEPT !.classrooms[o.id] = NoClassroom]
    [] o.coll = "classroom" /\ o.kind = "create" ->
         [db EXCEPT !.classrooms[o.id] = NewClassroom(o.val, o.cap)]
    [] o.coll = "student" /\ o.kind = "push" ->
         [db EXCEPT !.students[o.id].classrooms = Push(@, o.val)]
    [] o.coll = "student" /\ o.kind = "pull" ->
         [db EXCEPT !.students[o.id].classrooms = Pull(@, o.val)]
    [] o.coll = "teacher" /\ o.kind = "push" ->
         [db EXCEPT !.teachers[o.id].classrooms = Push(@, o.val)]
    [] o.coll = "teacher" /\ o.kind = "pull" ->
         [db EXCEPT !.teachers[o.id].classrooms = Pull(@, o.val)]

ApplyOps(db, ops) ==
  IF ops = <<>> THEN db ELSE ApplyOps(ApplyOp(db, Head(ops)), Tail(ops))

\* session.commitTransaction(): the buffered writes reach the store together.
Commit(p) ==
  LET db == ApplyOps([classrooms |-> classrooms, students |-> students,
                      teachers |-> teachers], txn[p].ops) IN
  /\ classrooms' = db.classrooms
  /\ students' = db.students
  /\ teachers' = db.teachers
  /\ txn' = [MarkStale(p, Written(p)) EXCEPT ![p] = NoTxn]

\* Classroom.findById of addStudentToClassroom (no session) and the capacity
\* check that follows it.
add_findClassroom(p) ==
  LET doc == classrooms[req[p].classroomId] IN
  /\ pc[p] = "add_findClassroom"
  /\ clsSnap' = [clsSnap EXCEPT ![p] = doc]
  /\ IF ~doc.exists THEN Finish(p, "NotFound")
     ELSE IF isAtCapacity(doc) THEN Finish(p, "CapacityExceeded")
     ELSE Goto(p, "add_findStudent") /\ UNCHANGED result
  /\ UNCHANGED <<store, req, stuSnap, pending, saved, txn, overlap, calls, probes, rest>>

\* Student.findById of addStudentToClassroom and the already-enrolled check.
add_findStudent(p) ==
  LET doc == students[req[p].studentId] IN
  /\ pc[p] = "add_findStudent"
  /\ stuSnap' = [stuSnap EXCEPT ![p] = doc]
  /\ IF ~doc.exists THEN Finish(p, "NotFound")
     ELSE IF Includes(clsSnap[p].students, req[p].studentId) THEN Finish(p, "Conflict")
     ELSE Goto(p, "add_updateClassroom") /\ UNCHANGED result
  /\ UNCHANGED <<store, req, clsSnap, pending, saved, txn, overlap, calls, probes, rest>>

\* Classroom.findById of removeStudentFromClassroom.
remove_findClassroom(p) ==
  LET doc == classrooms[req[p].classroomId] IN
  /\ pc[p] = "remove_findClassroom"
  /\ clsSnap' = [clsSnap EXCEPT ![p] = doc]
  /\ IF ~doc.exists THEN Finish(p, "NotFound")
     ELSE Goto(p, "remove_findStudent") /\ UNCHANGED result
  /\ UNCHANGED <<store, req, stuSnap, pending, saved, txn, overlap, calls, probes, rest>>

\* Student.findById of removeStudentFromClassroom; no enrolled check follows.
remove_findStudent(p) ==
  LET doc == students[req[p].studentId] IN
  /\ pc[p] = "remove_findStudent"
  /\ stuSnap' = [stuSnap EXCEPT ![p] = doc]
  /\ IF ~doc.exists THEN Finish(p, "NotFound")
     ELSE Goto(p, "remove_updateClassroom") /\ UNCHANGED result
  /\ UNCHANGED <<store, req, clsSnap, pending, saved, txn, overlap, calls, probes, rest>>

\* Classroom.findByIdAndUpdate(classroomId, {$push|$pull: {students}}, {session}).
classroom_updateClassroom(p) ==
  LET c == req[p].classroomId
      ks == Matched(p, "classroom", classrooms, {c})
      adding == pc[p] = "add_updateClassroom" IN
  /\ pc[p] \in {"add_updateClassroom", "remove_updateClassroom"}
  /\ TxnWrite(p, ks,
       IF ks = {} THEN <<>>
       ELSE <<WriteOp("classroom", c, IF adding THEN "push" ELSE "pull",
                      req[p].studentId, Undefined)>>,
       IF adding THEN "add_updateStudent" ELSE "remove_updateStudent")
  /\ UNCHANGED <<store, req, stuSnap, clsSnap, pending, saved, overlap, calls, probes, rest>>

\* Student.findByIdAndUpdate(studentId, {$push|$pull: {classrooms}}, {session}).
classroom_updateStudent(p) ==
  LET s == req[p].studentId
      ks == Matched(p, "student", students, {s})
      adding == pc[p] = "add_updateStudent" IN
  /\ pc[p] \in {"add_updateStudent", "remove_updateStudent"}
  /\ TxnWrite(p, ks,
       IF ks = {} THEN <<>>
       ELSE <<WriteOp("student", s, IF adding THEN "push" ELSE "pull",
                      req[p].classroomId, Undefined)>>,
       "commit")
  /\ UNCHANGED <<store, req, stuSnap, clsSnap, pending, saved, overlap, calls, probes, rest>>

\* commitTransaction of the ClassroomService methods.  createClassroom and
\* deleteClassroom return after it; addStudentToClassroom and
\* removeStudentFromClassroom first read the classroom again.
classroom_commitTransaction(p) ==
  /\ pc[p] = "commit"
  /\ Commit(p)
  /\ saved' = [saved EXCEPT ![p] = {k.coll : k \in Written(p)}]
  /\ IF req[p].op \in {"addStudentToClassroom", "removeStudentFromClassroom"}
     THEN Goto(p, "findUpdated") /\ UNCHANGED result
     ELSE Finish(p, "ok")
  /\ UNCHANGED <<allocated, req, stuSnap, clsSnap, pending, overlap, calls, probes, rest>>

\* `return await Classroom.findById(classroomId).populate(..)`: the updated
\* classroom is read for the caller; the store is not changed.
classroom_findUpdated(p) ==
  /\ pc[p] = "findUpdated"
  /\ Finish(p, "ok")
  /\ UNCHANGED <<store, req, stuSnap, clsSnap, pending, saved, txn, overlap, calls, probes, rest>>

\* Classroom.findById of deleteClassroom (no session).
delete_findClassroom(p) ==
  LET doc == classrooms[req[p].classroomId] IN
  /\ pc[p] = "delete_findClassroom"
  /\ clsSnap' = [clsSnap EXCEPT ![p] = doc]
  /\ IF ~doc.exists THEN Finish(p, "NotFound")
     ELSE Goto(p, "delete_updateTeacher") /\ UNCHANGED result
  /\ UNCHANGED <<store, req, stuSnap, pending, saved, txn, overlap, calls, probes, rest>>

\* The same update issued without { session }: it reaches the store at once.
delete_updateTeacher_noSession(p) ==
  LET t == clsSnap[p].teacherId IN
  /\ pc[p] = "delete_updateTeacher"
  /\ IF t \in TeacherIds /\ teachers[t].exists
     THEN teachers' = [teachers EXCEPT ![t].classrooms = Pull(@, req[p].classroomId)]
     ELSE UNCHANGED teachers
  /\ Goto(p, "delete_updateStudents")
  /\ UNCHANGED <<classrooms, students, allocated, req, stuSnap, clsSnap, pending,
                 saved, txn, result, overlap, calls, probes, rest>>

\* Teacher.findByIdAndUpdate(classroom.teacherId, {$pull: {classrooms}}, {session}).
delete_updateTeacher(p) ==
  LET t == clsSnap[p].teacherId
      ks == Matched(p, "teacher", teachers, {t} \cap TeacherIds) IN
  /\ pc[p] = "delete_updateTeacher"
  /\ TxnWrite(p, ks,
       IF ks = {} THEN <<>>
       ELSE <<WriteOp("teacher", t, "pull", req[p].classroomId, Undefined)>>,
       "delete_updateStudents")
  /\ UNCHANGED <<store, req, stuSnap, clsSnap, pending, saved, overlap, calls, probes, rest>>

\* The ids of an array, in array order, that are members of a set.
RECURSIVE PullOps(_, _, _)
PullOps(arr, ids, c) ==
  IF arr = <<>> THEN <<>>
  ELSE IF Head(arr) \in ids
    THEN <<WriteOp("student", Head(arr), "pull", c, Undefined)>>
           \o PullOps(Tail(arr), ids \ {Head(arr)}, c)
    ELSE PullOps(Tail(arr), ids, c)

\* Student.updateMany({_id: {$in: classroom.students}}, {$pull: {classrooms}},
\* {session}): the students are those of the classroom document as it was read.
delete_updateStudents(p) ==
  LET listed == {clsSnap[p].students[i] : i \in DOMAIN clsSnap[p].students}
      ks == Matched(p, "student", students, listed) IN
  /\ pc[p] = "delete_updateStudents"
  /\ TxnWrite(p, ks,
       PullOps(clsSnap[p].students, {k.id : k \in ks}, req[p].classroomId),
       "delete_deleteClassroom")
  /\ UNCHANGED <<store, req, stuSnap, clsSnap, pending, saved, overlap, calls, probes, rest>>

\* Classroom.findByIdAndDelete(id, {session}).
delete_deleteClassroom(p) ==
  LET c == req[p].classroomId
      ks == Matched(p, "classroom", classrooms, {c}) IN
  /\ pc[p] = "delete_deleteClassroom"
  /\ TxnWrite(p, ks,
       IF ks = {} THEN <<>>
       ELSE <<WriteOp("classroom", c, "delete", "none", Undefined)>>,
       "commit")
  /\ UNCHANGED <<store, req, stuSnap, clsSnap, pending, saved, overlap, calls, probes, rest>>

ClassroomServiceStep(p) ==
  \/ add_findClassroom(p)
  \/ add_findStudent(p)
  \/ remove_findClassroom(p)
  \/ remove_findStudent(p)
  \/ classroom_updateClassroom(p)
  \/ classroom_updateStudent(p)
  \/ delete_findClassroom(p)
  \/ delete_updateTeacher(p)
  \/ delete_updateStudents(p)
  \/ delete_deleteClassroom(p)
  \/ classroom_commitTransaction(p)
  \/ classroom_findUpdated(p)

\* A store call awaited inside the try block of a ClassroomService method
\* rejects: the catch block aborts the transaction and rethrows.  After the
\* commit only the read of the updated classroom is left to fail.
ClassroomServiceAwaits ==
  {"add_findClassroom", "add_findStudent", "add_updateClassroom", "add_updateStudent",
   "remove_findClassroom", "remove_findStudent", "remove_updateClassroom",
   "remove_updateStudent", "delete_findClassroom", "delete_updateTeacher",
   "delete_updateStudents", "delete_deleteClassroom", "commit", "findUpdated"}

classroom_storeError(p) ==
  /\ pc[p] \in ClassroomServiceAwaits
  /\ req[p].op \in ClassroomOps
  /\ Finish(p, "StoreError")
  /\ Abort(p)
  /\ UNCHANGED <<store, req, stuSnap, clsSnap, pending, saved, overlap, calls,
                 probes, rest>>

\* createClassroom(classroomData) and updateClassroom(id, updateData) as a client
\* calls them: the data names a teacher and a capacity, the update replaces
\* maxCapacity or the students array.
UpdateStudents == {<<>>, <<"s1">>, <<"s1", "s2">>}

CallAdmin(p) ==
  \/ /\ Cardinality(allocated \cap ClassroomIds)
          + Cardinality({q \in Procs : pc[q] = "create_create"})
          < Cardinality(ClassroomIds)
     /\ \E t \in TeacherIds, cap \in CapValues :
          Enter(p, [NoReq EXCEPT !.op = "createClassroom", !.teacherId = t,
                                 !.maxCapacity = cap])
  \/ \E c \in allocated \cap ClassroomIds, cap \in CapValues :
       Enter(p, [NoReq EXCEPT !.op = "updateClassroom", !.classroomId = c,
                              !.field = "maxCapacity", !.maxCapacity = cap])
  \/ \E c \in allocated \cap ClassroomIds, arr \in UpdateStudents :
       Enter(p, [NoReq EXCEPT !.op = "updateClassroom", !.classroomId = c,
                              !.field = "students", !.students = arr])

\* Classroom.create([classroomData], {session}): the document gets a new id.
create_create(p) ==
  /\ pc[p] = "create_create"
  /\ LET c == CHOOSE x \in ClassroomIds \ allocated : TRUE IN
       /\ allocated' = allocated \cup {c}
       /\ req' = [req EXCEPT ![p].classroomId = c]
       /\ TxnWrite(p, {},
            <<WriteOp("classroom", c, "create", req[p].teacherId, req[p].maxCapacity)>>,
            "create_updateTeacher")
  /\ UNCHANGED <<classrooms, students, teachers, stuSnap, clsSnap, pending, saved,
                 overlap, calls, probes, rest>>

\* Teacher.findByIdAndUpdate(teacherId, {$push: {classrooms}}, {session}).
create_updateTeacher(p) ==
  LET t == req[p].teacherId
      ks == Matched(p, "teacher", teachers, {t}) IN
  /\ pc[p] = "create_updateTeacher"
  /\ TxnWrite(p, ks,
       IF ks = {} THEN <<>>
       ELSE <<WriteOp("teacher", t, "push", req[p].classroomId, Undefined)>>,
       "commit")
  /\ UNCHANGED <<store, req, stuSnap, clsSnap, pending, saved, overlap, calls, probes, rest>>

\* Classroom.findByIdAndUpdate(id, updateData, {new, runValidators}): the schema
\* has no validator for maxCapacity or students.
updateClassroom(p) ==
  LET c == req[p].classroomId
      doc == classrooms[c] IN
  /\ pc[p] = "update_findByIdAndUpdate"
  /\ ~Locked(Key("classroom", c))
  /\ IF ~doc.exists
     THEN Finish(p, "NotFound") /\ UNCHANGED <<classrooms, txn>>
     ELSE /\ classrooms' = [classrooms EXCEPT ![c] =
               IF req[p].field = "maxCapacity"
               THEN [doc EXCEPT !.maxCapacity = req[p].maxCapacity]
               ELSE [doc EXCEPT !.students = req[p].students]]
          /\ txn' = MarkStale(p, {Key("classroom", c)})
          /\ Finish(p, "ok")
  /\ UNCHANGED <<students, teachers, allocated, req, stuSnap, clsSnap, pending,
                 saved, overlap, calls, probes, rest>>

AdminStep(p) ==
  \/ create_create(p)
  \/ create_updateTeacher(p)
  \/ updateClassroom(p)

\* ---------------------------------------------------------- AttendanceService
\* A sub-record of an Attendance document.
AttendanceRecord(s, status) == [studentId |-> s, status |-> status]

Statuses == {"present", "late"}

Days == {1, 2}
Hours == {0, 9}
Dates == [day : Days, hour : Hours]

\* new Date(date).setHours(0, 0, 0, 0): the same day at midnight.
StartOfDay(d) == [d EXCEPT !.hour = 0]

\* records.findIndex(record => record.studentId.toString() === studentId):
\* the first position holding the student, 0 for the code's -1.
RECURSIVE FindIndexFrom(_, _, _)
FindIndexFrom(records, s, i) ==
  IF i > Len(records) THEN 0
  ELSE IF records[i].studentId = s THEN i
  ELSE FindIndexFrom(records, s, i + 1)

findIndex(records, s) == FindIndexFrom(records, s, 1)

\* records.some(record => record.studentId.toString() === studentId)
some(records, s) == \E i \in DOMAIN records : records[i].studentId = s

\* {$set: {'records.<i>.status': status}}: a position past the end of the array
\* is created, the gap filled with null elements.
SetStatusAt(records, i, status) ==
  [j \in 1..(IF i > Len(records) THEN i ELSE Len(records)) |->
     IF j = i
     THEN [studentId |-> IF j <= Len(records) THEN records[j].studentId ELSE "none",
           status |-> status]
     ELSE IF j <= Len(records) THEN records[j]
     ELSE AttendanceRecord("none", "none")]

\* {$pull: {records: {studentId}}}
PullRecords(records, s) == SelectSeq(records, LAMBDA r : r.studentId /= s)

AttendanceOps ==
  {"createAttendance", "updateStudentAttendance", "addStudentToAttendance",
   "removeStudentFromAttendance"}

\* A client calls createAttendance with attendanceData, or one of the
\* per-student operations with an attendance id and a student id.
CallAttendanceService(p) ==
  \/ /\ Cardinality(allocated \cap AttendanceIds)
          + Cardinality({q \in Procs : ~Idle(q) /\ req[q].op = "createAttendance"})
          < Cardinality(AttendanceIds)
     /\ \E c \in ClassroomIds, d \in Dates :
          Enter(p, [NoReq EXCEPT !.op = "createAttendance", !.classroomId = c,
                                 !.date = d])
  \/ \E op \in {"updateStudentAttendance", "addStudentToAttendance"},
        a \in allocated \cap AttendanceIds, s \in StudentIds, st \in Statuses :
       Enter(p, [NoReq EXCEPT !.op = op, !.attendanceId = a, !.studentId = s,
                              !.status = st])
  \/ \E a \in allocated \cap AttendanceIds, s \in StudentIds :
       Enter(p, [NoReq EXCEPT !.op = "removeStudentFromAttendance",
                              !.attendanceId = a, !.studentId = s])

\* createAttendance: Classroom.findById.
attendance_findClassroom(p) ==
  LET doc == classrooms[req[p].classroomId] IN
  /\ pc[p] = "attendance_findClassroom"
  /\ clsSnap' = [clsSnap EXCEPT ![p] = doc]
  /\ IF ~doc.exists THEN Finish(p, "NotFound")
     ELSE Goto(p, "attendance_findOne") /\ UNCHANGED result
  /\ UNCHANGED <<store, ledger, req, stuSnap, usrSnap, attSnap, tchSnap, attendanceRecords,
                 saved, txn, aside>>

\* createAttendance: Attendance.findOne({classroomId, date: <midnight of date>}).
attendance_findOne(p) ==
  LET existing == {a \in AttendanceIds :
                     /\ attendances[a].exists
                     /\ attendances[a].classroomId = req[p].classroomId
                     /\ attendances[a].date = StartOfDay(req[p].date)} IN
  /\ pc[p] = "attendance_findOne"
  /\ IF existing /= {} THEN Finish(p, "Conflict")
     ELSE Goto(p, "attendance_create") /\ UNCHANGED result
  /\ UNCHANGED <<store, ledger, req, stuSnap, clsSnap, scratch, saved, txn, aside>>

\* createAttendance: Attendance.create(attendanceData).  The document keeps the
\* date as it was given; the unique index on {classroomId, date} rejects a
\* document whose classroom and date both equal those of a stored one.
attendance_create(p) ==
  LET a == CHOOSE x \in AttendanceIds \ allocated : TRUE
      duplicate == \E b \in AttendanceIds :
                     /\ attendances[b].exists
                     /\ attendances[b].classroomId = req[p].classroomId
                     /\ attendances[b].date = req[p].date IN
  /\ pc[p] = "attendance_create"
  /\ IF duplicate
     THEN /\ Finish(p, "DuplicateKey")
          /\ UNCHANGED <<attendances, allocated, req, saved>>
     ELSE /\ attendances' = [attendances EXCEPT ![a] =
               [exists |-> TRUE, classroomId |-> req[p].classroomId,
                date |-> req[p].date, records |-> req[p].records, v |-> 0]]
          /\ allocated' = allocated \cup {a}
          /\ req' = [req EXCEPT ![p].attendanceId = a]
          /\ saved' = [saved EXCEPT ![p] = {"attendance"}]
          /\ Finish(p, "ok")
  /\ UNCHANGED <<classrooms, students, teachers, users, grades, stuSnap, clsSnap,
                 scratch, txn, aside>>

\* Attendance.findById(id) with the sub-record checks left out.
attendance_findById_noChecks(p) ==
  LET doc == attendances[req[p].attendanceId] IN
  /\ pc[p] = "attendance_findById"
  /\ attSnap' = [attSnap EXCEPT ![p] = doc]
  /\ IF ~doc.exists THEN Finish(p, "NotFound")
     ELSE Goto(p, "attendance_findByIdAndUpdate") /\ UNCHANGED result
  /\ UNCHANGED <<store, ledger, req, stuSnap, clsSnap, usrSnap, tchSnap,
                 attendanceRecords, saved, txn, aside>>

\* Attendance.findById(id) of the per-student operations and the check that
\* follows it.
attendance_findById(p) ==
  LET doc == attendances[req[p].attendanceId]
      op == req[p].op IN
  /\ pc[p] = "attendance_findById"
  /\ attSnap' = [attSnap EXCEPT ![p] = doc]
  /\ IF ~doc.exists THEN Finish(p, "NotFound")
     ELSE IF op = "updateStudentAttendance" /\ findIndex(doc.records, req[p].studentId) = 0
       THEN Finish(p, "NotFound")
     ELSE IF op = "addStudentToAttendance" /\ some(doc.records, req[p].studentId)
       THEN Finish(p, "Conflict")
     ELSE Goto(p, "attendance_findByIdAndUpdate") /\ UNCHANGED result
  /\ UNCHANGED <<store, ledger, req, stuSnap, clsSnap, usrSnap, tchSnap,
                 attendanceRecords, saved, txn, aside>>

\* Attendance.findByIdAndUpdate(id, {$set | $push | $pull}, {new: true}): the
\* update is applied to the stored document; a missing document yields null.
attendance_findByIdAndUpdate(p) ==
  LET a == req[p].attendanceId
      doc == attendances[a]
      op == req[p].op
      updated ==
        CASE op = "updateStudentAttendance" ->
               SetStatusAt(doc.records, findIndex(attSnap[p].records, req[p].studentId),
                           req[p].status)
          [] op = "addStudentToAttendance" ->
               Append(doc.records, AttendanceRecord(req[p].studentId, req[p].status))
          [] op = "removeStudentFromAttendance" ->
               PullRecords(doc.records, req[p].studentId) IN
  /\ pc[p] = "attendance_findByIdAndUpdate"
  /\ IF doc.exists
     THEN /\ attendances' = [attendances EXCEPT ![a].records = updated]
          /\ saved' = [saved EXCEPT ![p] = {"attendance"}]
     ELSE UNCHANGED <<attendances, saved>>
  /\ Finish(p, "ok")
  /\ UNCHANGED <<store, users, grades, req, stuSnap, clsSnap, scratch, txn, aside>>

AttendanceServiceStep(p) ==
  \/ attendance_findClassroom(p)
  \/ attendance_findOne(p)
  \/ attendance_create(p)
  \/ attendance_findById(p)
  \/ attendance_findByIdAndUpdate(p)

\* One classroom and one attendance document taken for it at midnight of day 1.
InitAttendance ==
  /\ classrooms = [c \in ClassroomIds |->
                     IF c = "c1" THEN NewClassroom("t1", Undefined) ELSE NoClassroom]
  /\ students = [s \in StudentIds |-> NewStudent(IF s = "s1" THEN "u1" ELSE "u2")]
  /\ teachers = [t \in TeacherIds |->
                   IF t = "t1" THEN [NewTeacher("u3") EXCEPT !.classrooms = <<"c1">>]
                   ELSE NoTeacher]
  /\ users = [u \in UserIds |-> [exists |-> TRUE, role |-> "student"]]
  /\ grades = [g \in GradeIds |-> NoGrade]
  /\ \E recs \in {<<>>, <<AttendanceRecord("s1", "present")>>} :
       attendances = [a \in AttendanceIds |->
                        IF a = "a1"
                        THEN [exists |-> TRUE, classroomId |-> "c1",
                              date |-> [day |-> 1, hour |-> 0], records |-> recs,
                              v |-> 0]
                        ELSE NoAttendance]
  /\ allocated = {"c1", "a1"}
  /\ InitLocals
  /\ InitProbes

NextAttendance ==
  \E p \in Procs :
    \/ CallAttendanceService(p)
    \/ AttendanceServiceStep(p)

SpecAttendance == InitAttendance /\ [][NextAttendance]_vars

\* ------------------------------------------------- profiles and their users
\* The role a profile type goes with.
RoleOf(op) == IF op = "createStudent" THEN "student" ELSE "teacher"

StudentsOf(u) == {s \in StudentIds : students[s].exists /\ students[s].userId = u}

TeachersOf(u) == {t \in TeacherIds : teachers[t].exists /\ teachers[t].userId = u}

\* Ids of a profile collection no document was given yet.
FreshIds(ids) == ids \ allocated

\* A client calls createStudent(studentData) or createTeacher(teacherData) for a
\* user id, with data the schema accepts or rejects; updateUserRole for a user
\* id and a role; deleteStudent, deleteTeacher for a profile id.
CallCreateProfile(p) ==
  \/ \E u \in UserIds, ok \in BOOLEAN :
       /\ Cardinality(FreshIds(StudentIds))
            > Cardinality({q \in Procs : ~Idle(q) /\ req[q].op = "createStudent"})
       /\ Enter(p, [NoReq EXCEPT !.op = "createStudent", !.userId = u, !.valid = ok])
  \/ \E u \in UserIds, ok \in BOOLEAN :
       /\ Cardinality(FreshIds(TeacherIds))
            > Cardinality({q \in Procs : ~Idle(q) /\ req[q].op = "createTeacher"})
       /\ Enter(p, [NoReq EXCEPT !.op = "createTeacher", !.userId = u, !.valid = ok])

CallUpdateUserRole(p) ==
  \E u \in UserIds, r \in Roles :
    Enter(p, [NoReq EXCEPT !.op = "updateUserRole", !.userId = u, !.role = r])

CallDeleteProfile(p) ==
  \/ \E s \in allocated \cap StudentIds :
       Enter(p, [NoReq EXCEPT !.op = "deleteStudent", !.studentId = s])
  \/ \E t \in allocated \cap TeacherIds :
       Enter(p, [NoReq EXCEPT !.op = "deleteTeacher", !.teacherId = t])

\* createStudent / createTeacher: User.findById(data.userId).
profile_findUser(p) ==
  LET doc == users[req[p].userId] IN
  /\ pc[p] = "profile_findUser"
  /\ usrSnap' = [usrSnap EXCEPT ![p] = doc]
  /\ IF ~doc.exists THEN Finish(p, "NotFound")
     ELSE Goto(p, "profile_findOne") /\ UNCHANGED result
  /\ UNCHANGED <<store, ledger, req, stuSnap, clsSnap, attSnap, tchSnap,
                 attendanceRecords, saved, txn, aside>>

\* The same step with the result of findOne ignored.
profile_findOne_noCheck(p) ==
  /\ pc[p] = "profile_findOne"
  /\ Goto(p, IF usrSnap[p].role /= RoleOf(req[p].op)
             THEN "profile_saveUser" ELSE "profile_create")
  /\ UNCHANGED <<store, ledger, req, result, stuSnap, clsSnap, scratch, saved, txn, aside>>

\* Student.findOne({userId}) / Teacher.findOne({userId}) and the role test: the
\* user is saved only if its role is not yet the profile's.
profile_findOne(p) ==
  LET u == req[p].userId
      existing == IF req[p].op = "createStudent" THEN StudentsOf(u) ELSE TeachersOf(u) IN
  /\ pc[p] = "profile_findOne"
  /\ IF existing /= {} THEN Finish(p, "Conflict")
     ELSE /\ Goto(p, IF usrSnap[p].role /= RoleOf(req[p].op)
                     THEN "profile_saveUser" ELSE "profile_create")
          /\ UNCHANGED result
  /\ UNCHANGED <<store, ledger, req, stuSnap, clsSnap, scratch, saved, txn, aside>>

\* user.role = <role>; await user.save(): the role is written to the stored
\* user; save() fails if the document is gone.
profile_saveUser(p) ==
  LET u == req[p].userId IN
  /\ pc[p] = "profile_saveUser"
  /\ IF users[u].exists
     THEN /\ users' = [users EXCEPT ![u].role = RoleOf(req[p].op)]
          /\ saved' = [saved EXCEPT ![p] = @ \cup {"user"}]
          /\ Goto(p, "profile_create")
          /\ UNCHANGED result
     ELSE /\ Finish(p, "WriteError")
          /\ UNCHANGED <<users, saved>>
  /\ UNCHANGED <<store, grades, attendances, req, stuSnap, clsSnap, scratch, txn, aside>>

\* Student.create(studentData) / Teacher.create(teacherData): the schema
\* validates the data, the unique index on userId rejects a second profile of
\* the collection for the user.
profile_create(p) ==
  LET u == req[p].userId
      student == req[p].op = "createStudent"
      existing == IF student THEN StudentsOf(u) ELSE TeachersOf(u)
      id == CHOOSE x \in FreshIds(IF student THEN StudentIds ELSE TeacherIds) : TRUE IN
  /\ pc[p] = "profile_create"
  /\ IF ~req[p].valid
     THEN /\ Finish(p, "ValidationError")
          /\ UNCHANGED <<students, teachers, allocated, req, saved>>
     ELSE IF existing /= {}
     THEN /\ Finish(p, "DuplicateKey")
          /\ UNCHANGED <<students, teachers, allocated, req, saved>>
     ELSE /\ IF student
             THEN /\ students' = [students EXCEPT ![id] = NewStudent(u)]
                  /\ req' = [req EXCEPT ![p].studentId = id]
                  /\ UNCHANGED teachers
             ELSE /\ teachers' = [teachers EXCEPT ![id] = NewTeacher(u)]
                  /\ req' = [req EXCEPT ![p].teacherId = id]
                  /\ UNCHANGED students
          /\ allocated' = allocated \cup {id}
          /\ saved' = [saved EXCEPT ![p] = @ \cup {IF student THEN "student" ELSE "teacher"}]
          /\ Finish(p, "ok")
  /\ UNCHANGED <<classrooms, ledger, stuSnap, clsSnap, scratch, txn, aside>>

\* updateUserRole: User.findByIdAndUpdate(userId, {role: newRole}).
updateUserRole(p) ==
  LET u == req[p].userId IN
  /\ pc[p] = "updateUserRole_findByIdAndUpdate"
  /\ IF users[u].exists
     THEN /\ users' = [users EXCEPT ![u].role = req[p].role]
          /\ saved' = [saved EXCEPT ![p] = {"user"}]
          /\ Finish(p, "ok")
     ELSE /\ Finish(p, "NotFound")
          /\ UNCHANGED <<users, saved>>
  /\ UNCHANGED <<store, grades, attendances, req, stuSnap, clsSnap, scratch, txn, aside>>

\* deleteStudent: Student.findById and the enrolled check.
deleteStudent_findById(p) ==
  LET doc == students[req[p].studentId] IN
  /\ pc[p] = "deleteStudent_findById"
  /\ stuSnap' = [stuSnap EXCEPT ![p] = doc]
  /\ IF ~doc.exists THEN Finish(p, "NotFound")
     ELSE IF Len(doc.classrooms) > 0 THEN Finish(p, "Conflict")
     ELSE Goto(p, "deleteStudent_deleteGrades") /\ UNCHANGED result
  /\ UNCHANGED <<store, ledger, req, clsSnap, scratch, saved, txn, aside>>

\* Grade.deleteMany({studentId})
deleteStudent_deleteGrades(p) ==
  /\ pc[p] = "deleteStudent_deleteGrades"
  /\ grades' = [g \in GradeIds |->
                  IF grades[g].exists /\ grades[g].studentId = req[p].studentId
                  THEN NoGrade ELSE grades[g]]
  /\ saved' = [saved EXCEPT ![p] =
       IF grades' /= grades THEN @ \cup {"grade"} ELSE @]
  /\ Goto(p, "deleteStudent_findAttendance")
  /\ UNCHANGED <<store, users, attendances, req, result, stuSnap, clsSnap, scratch,
                 txn, aside>>

\* Attendance.find({'records.studentId': studentId}): the documents holding a
\* sub-record of the student, in the order of their creation, each with its id.
AttendanceOrder == <<"a1", "a2", "a3", "a4">>

find(s) ==
  LET ids == SelectSeq(AttendanceOrder,
                       LAMBDA a : attendances[a].exists /\ some(attendances[a].records, s))
  IN [i \in DOMAIN ids |-> [id |-> ids[i], doc |-> attendances[ids[i]]]]

deleteStudent_findAttendance(p) ==
  LET found == find(req[p].studentId) IN
  /\ pc[p] = "deleteStudent_findAttendance"
  /\ attendanceRecords' = [attendanceRecords EXCEPT ![p] = found]
  /\ Goto(p, IF found = <<>> THEN "deleteStudent_remove" ELSE "deleteStudent_cleanAttendance")
  /\ UNCHANGED <<store, ledger, req, result, stuSnap, clsSnap, usrSnap, attSnap, tchSnap,
                 saved, txn, aside>>

\* The same turn of the loop saving the document even when no sub-record is left.
deleteStudent_cleanAttendance_keepEmpty(p) ==
  LET head == Head(attendanceRecords[p])
      a == head.id
      filtered == PullRecords(head.doc.records, req[p].studentId)
      more == Tail(attendanceRecords[p])
      next == IF more = <<>> THEN "deleteStudent_remove" ELSE "deleteStudent_cleanAttendance" IN
  /\ pc[p] = "deleteStudent_cleanAttendance"
  /\ attendanceRecords' = [attendanceRecords EXCEPT ![p] = more]
  /\ IF attendances[a].exists /\ attendances[a].v = head.doc.v
     THEN /\ attendances' = [attendances EXCEPT ![a].records = filtered, ![a].v = @ + 1]
          /\ saved' = [saved EXCEPT ![p] = @ \cup {"attendance"}]
          /\ Goto(p, next) /\ UNCHANGED result
     ELSE /\ Finish(p, "WriteError")
          /\ UNCHANGED <<attendances, saved>>
  /\ UNCHANGED <<store, users, grades, req, stuSnap, clsSnap, usrSnap, attSnap, tchSnap,
                 txn, aside>>

\* One turn of the loop over attendanceRecords: the student's sub-records are
\* filtered out of the document as it was read; an empty result removes the
\* document, otherwise save() writes the whole array, matched by _id and the
\* __v that was read.
deleteStudent_cleanAttendance(p) ==
  LET head == Head(attendanceRecords[p])
      a == head.id
      filtered == PullRecords(head.doc.records, req[p].studentId)
      more == Tail(attendanceRecords[p])
      next == IF more = <<>> THEN "deleteStudent_remove" ELSE "deleteStudent_cleanAttendance" IN
  /\ pc[p] = "deleteStudent_cleanAttendance"
  /\ attendanceRecords' = [attendanceRecords EXCEPT ![p] = more]
  /\ IF filtered = <<>>
     THEN /\ attendances' = [attendances EXCEPT ![a] = NoAttendance]
          /\ saved' = [saved EXCEPT ![p] =
               IF attendances[a].exists THEN @ \cup {"attendance"} ELSE @]
          /\ Goto(p, next) /\ UNCHANGED result
     ELSE IF attendances[a].exists /\ attendances[a].v = head.doc.v
     THEN /\ attendances' = [attendances EXCEPT ![a].records = filtered, ![a].v = @ + 1]
          /\ saved' = [saved EXCEPT ![p] = @ \cup {"attendance"}]
          /\ Goto(p, next) /\ UNCHANGED result
     ELSE /\ Finish(p, "WriteError")
          /\ UNCHANGED <<attendances, saved>>
  /\ UNCHANGED <<store, users, grades, req, stuSnap, clsSnap, usrSnap, attSnap, tchSnap,
                 txn, aside>>

\* student.remove(): the student document is deleted by its _id.
deleteStudent_remove(p) ==
  LET s == req[p].studentId IN
  /\ pc[p] = "deleteStudent_remove"
  /\ ~Locked(Key("student", s))
  /\ students' = [students EXCEPT ![s] = NoStudent]
  /\ saved' = [saved EXCEPT ![p] = IF students[s].exists THEN @ \cup {"student"} ELSE @]
  /\ txn' = MarkStale(p, {Key("student", s)})
  /\ Finish(p, "ok")
  /\ UNCHANGED <<classrooms, teachers, allocated, ledger, req, stuSnap, clsSnap, scratch,
                 aside>>

\* deleteTeacher: Teacher.findById.
deleteTeacher_findById(p) ==
  LET doc == teachers[req[p].teacherId] IN
  /\ pc[p] = "deleteTeacher_findById"
  /\ tchSnap' = [tchSnap EXCEPT ![p] = doc]
  /\ IF ~doc.exists THEN Finish(p, "NotFound")
     ELSE Goto(p, "deleteTeacher_countDocuments") /\ UNCHANGED result
  /\ UNCHANGED <<store, ledger, req, stuSnap, clsSnap, usrSnap, attSnap,
                 attendanceRecords, saved, txn, aside>>

\* Classroom.countDocuments({teacherId}) and the check on the count.
deleteTeacher_countDocuments(p) ==
  LET classroomCount ==
        Cardinality({c \in ClassroomIds :
                       classrooms[c].exists /\ classrooms[c].teacherId = req[p].teacherId}) IN
  /\ pc[p] = "deleteTeacher_countDocuments"
  /\ IF classroomCount > 0 THEN Finish(p, "Conflict")
     ELSE Goto(p, "deleteTeacher_findUser") /\ UNCHANGED result
  /\ UNCHANGED <<store, ledger, req, stuSnap, clsSnap, scratch, saved, txn, aside>>

\* User.findById(teacher.userId); a user that is found gets the role 'student',
\* which is saved if it changes the document.
deleteTeacher_findUser(p) ==
  LET u == tchSnap[p].userId
      doc == IF u \in UserIds THEN users[u] ELSE NoUser IN
  /\ pc[p] = "deleteTeacher_findUser"
  /\ usrSnap' = [usrSnap EXCEPT ![p] = doc]
  /\ Goto(p, IF doc.exists /\ doc.role /= "student"
             THEN "deleteTeacher_saveUser" ELSE "deleteTeacher_remove")
  /\ UNCHANGED <<store, ledger, req, result, stuSnap, clsSnap, attSnap, tchSnap,
                 attendanceRecords, saved, txn, aside>>

\* user.role = 'student'; await user.save()
deleteTeacher_saveUser(p) ==
  LET u == tchSnap[p].userId IN
  /\ pc[p] = "deleteTeacher_saveUser"
  /\ IF users[u].exists
     THEN /\ users' = [users EXCEPT ![u].role = "student"]
          /\ saved' = [saved EXCEPT ![p] = @ \cup {"user"}]
          /\ Goto(p, "deleteTeacher_remove")
          /\ UNCHANGED result
     ELSE /\ Finish(p, "WriteError")
          /\ UNCHANGED <<users, saved>>
  /\ UNCHANGED <<store, grades, attendances, req, stuSnap, clsSnap, scratch, txn, aside>>

\* teacher.remove()
deleteTeacher_remove(p) ==
  LET t == req[p].teacherId IN
  /\ pc[p] = "deleteTeacher_remove"
  /\ ~Locked(Key("teacher", t))
  /\ teachers' = [teachers EXCEPT ![t] = NoTeacher]
  /\ saved' = [saved EXCEPT ![p] = IF teachers[t].exists THEN @ \cup {"teacher"} ELSE @]
  /\ txn' = MarkStale(p, {Key("teacher", t)})
  /\ Finish(p, "ok")
  /\ UNCHANGED <<classrooms, students, allocated, ledger, req, stuSnap, clsSnap, scratch,
                 aside>>

\* A store call awaited by a profile method rejects: the error propagates to
\* the caller; nothing is undone.
ProfileServiceAwaits ==
  {"profile_findUser", "profile_findOne", "profile_saveUser", "profile_create",
   "updateUserRole_findByIdAndUpdate", "deleteStudent_findById",
   "deleteStudent_deleteGrades", "deleteStudent_findAttendance",
   "deleteStudent_cleanAttendance", "deleteStudent_remove", "deleteTeacher_findById",
   "deleteTeacher_countDocuments", "deleteTeacher_findUser", "deleteTeacher_saveUser",
   "deleteTeacher_remove"}

profile_storeError(p) ==
  /\ pc[p] \in ProfileServiceAwaits
  /\ Finish(p, "StoreError")
  /\ UNCHANGED <<store, ledger, req, stuSnap, clsSnap, scratch, saved, txn, aside>>

CreateProfileStep(p) ==
  \/ profile_findUser(p)
  \/ profile_findOne(p)
  \/ profile_saveUser(p)
  \/ profile_create(p)

DeleteProfileStep(p) ==
  \/ deleteStudent_findById(p)
  \/ deleteStudent_deleteGrades(p)
  \/ deleteStudent_findAttendance(p)
  \/ deleteStudent_cleanAttendance(p)
  \/ deleteStudent_remove(p)
  \/ deleteTeacher_findById(p)
  \/ deleteTeacher_countDocuments(p)
  \/ deleteTeacher_findUser(p)
  \/ deleteTeacher_saveUser(p)
  \/ deleteTeacher_remove(p)

\* A user with a student profile that has a grade and attendance sub-records, a
\* second user that is an admin without a profile or a teacher whose profile
\* owns a classroom or none, and a user id that does not exist.
InitProfileStore(teacher, owned) ==
  /\ users = [u \in UserIds |->
                CASE u = "u1" -> [exists |-> TRUE, role |-> "student"]
                  [] u = "u2" -> [exists |-> TRUE,
                                  role |-> IF teacher THEN "teacher" ELSE "admin"]
                  [] OTHER -> NoUser]
  /\ classrooms = [c \in ClassroomIds |->
                     IF c = "c1" /\ owned THEN NewClassroom("t1", Undefined)
                     ELSE NoClassroom]
  /\ teachers = [t \in TeacherIds |->
                   IF t = "t1" /\ teacher
                   THEN [NewTeacher("u2") EXCEPT
                           !.classrooms = IF owned THEN <<"c1">> ELSE <<>>]
                   ELSE NoTeacher]
  /\ allocated = {"s1", "g1", "g2", "a1", "a2"}
                   \cup (IF teacher THEN {"t1"} ELSE {})
                   \cup (IF owned THEN {"c1"} ELSE {})
  /\ students = [s \in StudentIds |-> IF s = "s1" THEN NewStudent("u1") ELSE NoStudent]
  /\ grades = [g \in GradeIds |->
                 CASE g = "g1" -> [NoGrade EXCEPT !.exists = TRUE, !.studentId = "s1",
                                                  !.classroomId = "c1"]
                   [] g = "g2" -> [NoGrade EXCEPT !.exists = TRUE, !.studentId = "s2",
                                                  !.classroomId = "c1"]
                   [] OTHER -> NoGrade]
  /\ attendances = [a \in AttendanceIds |->
       CASE a = "a1" -> [exists |-> TRUE, classroomId |-> "c1",
                         date |-> [day |-> 1, hour |-> 0],
                         records |-> <<AttendanceRecord("s1", "present")>>, v |-> 0]
         [] a = "a2" -> [exists |-> TRUE, classroomId |-> "c1",
                         date |-> [day |-> 2, hour |-> 0],
                         records |-> <<AttendanceRecord("s2", "late"),
                                       AttendanceRecord("s1", "present")>>, v |-> 0]
         [] OTHER -> NoAttendance]
  /\ InitLocals
  /\ InitProbes

InitProfiles == InitProfileStore(FALSE, FALSE)

\* Profile creation, deletion and role updates.
NextProfiles ==
  \E p \in Procs :
    \/ CallCreateProfile(p)
    \/ CreateProfileStep(p)
    \/ CallUpdateUserRole(p)
    \/ updateUserRole(p)
    \/ CallDeleteProfile(p)
    \/ DeleteProfileStep(p)

SpecProfiles == InitProfiles /\ [][NextProfiles]_vars

\* Profile creation and deletion with failing store calls.
NextProfileFaults ==
  \E p \in Procs :
    \/ CallCreateProfile(p)
    \/ CreateProfileStep(p)
    \/ CallDeleteProfile(p)
    \/ DeleteProfileStep(p)
    \/ profile_storeError(p)

SpecProfileFaults == InitProfiles /\ [][NextProfileFaults]_vars

InitDeletion == \E owned \in BOOLEAN : InitProfileStore(TRUE, owned)

\* Profile deletion together with StudentService enrollment.
NextDeletion ==
  \E p \in Procs :
    \/ CallDeleteProfile(p)
    \/ DeleteProfileStep(p)
    \/ CallStudentService(p)
    \/ StudentServiceStep(p)

SpecDeletion == InitDeletion /\ [][NextDeletion]_vars

\* ------------------------------------------------------------ specification
\* Enrollment traffic against one classroom created with or without a capacity.
Next ==
  \E p \in Procs :
    \/ CallStudentService(p)
    \/ CallClassroomService(p)
    \/ StudentServiceStep(p)
    \/ ClassroomServiceStep(p)

Spec == Init /\ [][Next]_vars

\* Classroom creation and update together with StudentService enrollment.
NextAdmin ==
  \E p \in Procs :
    \/ CallAdmin(p)
    \/ AdminStep(p)
    \/ classroom_commitTransaction(p)
    \/ CallStudentService(p)
    \/ StudentServiceStep(p)

SpecAdmin == Init /\ [][NextAdmin]_vars

\* ClassroomService calls whose store calls may fail.
NextFaults ==
  \E p \in Procs :
    \/ CallClassroomService(p)
    \/ ClassroomServiceStep(p)
    \/ classroom_storeError(p)

SpecFaults == Init /\ [][NextFaults]_vars

\* isAtCapacity applied to classroom documents of every small shape.
RECURSIVE Arrays(_)
Arrays(n) ==
  IF n = 0 THEN {<<>>}
  ELSE Arrays(n - 1) \cup {Append(a, s) : a \in Arrays(n - 1), s \in StudentIds}

InitCapacity ==
  /\ \E cap \in CapValues \cup {MaxLen}, arr \in Arrays(MaxLen) :
       probe = [NewClassroom("t1", cap) EXCEPT !.students = arr]
  /\ probeResult = "none"
  /\ answer = NoAnswer
  /\ InitLedger
  /\ classrooms = [c \in ClassroomIds |-> NoClassroom]
  /\ students = [s \in StudentIds |-> NoStudent]
  /\ teachers = [t \in TeacherIds |-> NoTeacher]
  /\ allocated = {}
  /\ InitLocals

CallIsAtCapacity ==
  /\ probeResult = "none"
  /\ probeResult' = IF isAtCapacity(probe) THEN "true" ELSE "false"
  /\ UNCHANGED <<store, locals, probe, rest>>

SpecCapacity == InitCapacity /\ [][CallIsAtCapacity]_vars

\* -------------------------------------------------------------- deleteUser
\* An admin calls UserService.deleteUser(userId).
CallDeleteUser(p) ==
  \E u \in UserIds : Enter(p, [NoReq EXCEPT !.op = "deleteUser", !.userId = u])

\* deleteUser: User.findById and the test of user.role.
deleteUser_findById(p) ==
  LET doc == users[req[p].userId] IN
  /\ pc[p] = "deleteUser_findById"
  /\ usrSnap' = [usrSnap EXCEPT ![p] = doc]
  /\ IF ~doc.exists THEN Finish(p, "NotFound")
     ELSE /\ Goto(p, IF doc.role \in {"student", "teacher"}
                     THEN "deleteUser_deleteProfile" ELSE "deleteUser_deleteUser")
          /\ UNCHANGED result
  /\ UNCHANGED <<store, ledger, req, stuSnap, clsSnap, attSnap, tchSnap,
                 attendanceRecords, saved, txn, aside>>

\* deleteUser: Student.findOneAndDelete({ userId }) for the role 'student',
\* Teacher.findOneAndDelete({ userId }) for the role 'teacher'; no document
\* matching is no error.
deleteUser_deleteProfile(p) ==
  LET u == req[p].userId
      ss == IF usrSnap[p].role = "student" THEN StudentsOf(u) ELSE {}
      ts == IF usrSnap[p].role = "teacher" THEN TeachersOf(u) ELSE {} IN
  /\ pc[p] = "deleteUser_deleteProfile"
  /\ \A s \in ss : ~Locked(Key("student", s))
  /\ \A t \in ts : ~Locked(Key("teacher", t))
  /\ students' = [s \in StudentIds |-> IF s \in ss THEN NoStudent ELSE students[s]]
  /\ teachers' = [t \in TeacherIds |-> IF t \in ts THEN NoTeacher ELSE teachers[t]]
  /\ saved' = [saved EXCEPT ![p] =
                 @ \cup (IF ss /= {} THEN {"student"} ELSE {})
                   \cup (IF ts /= {} THEN {"teacher"} ELSE {})]
  /\ txn' = MarkStale(p, {Key("student", s) : s \in ss}
                           \cup {Key("teacher", t) : t \in ts})
  /\ Goto(p, "deleteUser_deleteUser")
  /\ UNCHANGED <<classrooms, allocated, ledger, req, result, stuSnap, clsSnap,
                 scratch, aside>>

\* deleteUser: User.findByIdAndDelete(userId).
deleteUser_deleteUser(p) ==
  LET u == req[p].userId IN
  /\ pc[p] = "deleteUser_deleteUser"
  /\ users' = [users EXCEPT ![u] = NoUser]
  /\ saved' = [saved EXCEPT ![p] = IF users[u].exists THEN @ \cup {"user"} ELSE @]
  /\ Finish(p, "ok")
  /\ UNCHANGED <<store, grades, attendances, req, stuSnap, clsSnap, scratch, txn,
                 aside>>

DeleteUserStep(p) ==
  \/ deleteUser_findById(p)
  \/ deleteUser_deleteProfile(p)
  \/ deleteUser_deleteUser(p)

\* deleteUser together with StudentService enrollment, from the store of
\* InitDeletion.
NextUsers ==
  \E p \in Procs :
    \/ CallDeleteUser(p)
    \/ DeleteUserStep(p)
    \/ CallStudentService(p)
    \/ StudentServiceStep(p)

SpecUsers == InitDeletion /\ [][NextUsers]_vars

\* ------------------------------------------------------------- GradeService
\* Numbers.  score, maxScore and weightage are integers here and every
\* quotient is kept as an exact fraction <<numerator, denominator>> with a
\* positive denominator; the grade shapes below have a positive maxScore and
\* give no average that lies exactly between two hundredths, so the rounding
\* of the double and of the fraction agree.
Frac(n, d) == <<n, d>>

FracAdd(a, b) == <<a[1] * b[2] + b[1] * a[2], a[2] * b[2]>>

FracLess(a, b) == a[1] * b[2] < b[1] * a[2]

Abs(n) == IF n < 0 THEN 0 - n ELSE n

\* Number.prototype.toFixed(2): the decimal string with two fraction digits
\* nearest to the number, the larger magnitude on a tie.  The string is
\* represented by its type and by the integer it shows in hundredths.
toFixed(a) ==
  LET n == Abs(a[1])
      h == (2 * 100 * n + a[2]) \div (2 * a[2])
  IN [type |-> "string", hundredths |-> IF a[1] < 0 THEN 0 - h ELSE h]

\* The number literal 0.
Zero == [type |-> "number", hundredths |-> 0]

\* (grade.score / grade.maxScore) * 100
percentage(grade) == Frac(grade.score * 100, grade.maxScore)

GradeOrder == <<"g1", "g2", "g3">>

\* Grade.find(filter): the matching documents, in collection order.
RECURSIVE FindGradesFrom(_, _, _, _)
FindGradesFrom(i, s, c, anyStudent) ==
  IF i > Len(GradeOrder) THEN <<>>
  ELSE LET g == grades[GradeOrder[i]]
           tail == FindGradesFrom(i + 1, s, c, anyStudent)
       IN IF g.exists /\ g.classroomId = c /\ (anyStudent \/ g.studentId = s)
          THEN <<g>> \o tail
          ELSE tail

\* Grade.find({ studentId }) instead of Grade.find({ studentId, classroomId }).
findByStudentAndClassroom_anyClassroom(s, c) ==
  LET RECURSIVE From(_)
      From(i) ==
        IF i > Len(GradeOrder) THEN <<>>
        ELSE LET g == grades[GradeOrder[i]]
             IN IF g.exists /\ g.studentId = s THEN <<g>> \o From(i + 1)
                ELSE From(i + 1)
  IN From(1)

findByStudentAndClassroom(s, c) == FindGradesFrom(1, s, c, FALSE)

findByClassroom(c) == FindGradesFrom(1, "none", c, TRUE)

\* The forEach of getStudentAverage: totalWeightedScore and totalWeightage
\* after grades gs[i..], starting from tws and tw.
RECURSIVE WeightedTotals(_, _, _, _)
WeightedTotals(gs, i, tws, tw) ==
  IF i > Len(gs) THEN [totalWeightedScore |-> tws, totalWeightage |-> tw]
  ELSE LET pct == percentage(gs[i])
       IN WeightedTotals(gs, i + 1,
                         FracAdd(tws, Frac(pct[1] * gs[i].weightage, pct[2])),
                         tw + gs[i].weightage)

\* getStudentAverage formatting its result in every case.
getStudentAverage_alwaysFormats(s, c) ==
  LET gs == findByStudentAndClassroom(s, c)
      t == WeightedTotals(gs, 1, Frac(0, 1), 0)
  IN IF Len(gs) = 0 THEN toFixed(Frac(0, 1))
     ELSE IF t.totalWeightage > 0
          THEN toFixed(Frac(t.totalWeightedScore[1],
                            t.totalWeightedScore[2] * t.totalWeightage))
          ELSE toFixed(Frac(0, 1))

getStudentAverage(s, c) ==
  LET gs == findByStudentAndClassroom(s, c)
      t == WeightedTotals(gs, 1, Frac(0, 1), 0)
  IN IF Len(gs) = 0 THEN Zero
     ELSE IF t.totalWeightage > 0
          THEN toFixed(Frac(t.totalWeightedScore[1],
                            t.totalWeightedScore[2] * t.totalWeightage))
          ELSE Zero

\* The forEach of getClassroomGradeStatistics: the running totals after
\* grades gs[i..], starting from acc.
RECURSIVE StatisticsTotals(_, _, _)
StatisticsTotals(gs, i, acc) ==
  IF i > Len(gs) THEN acc
  ELSE LET pct == percentage(gs[i])
           type == gs[i].assignmentType
           types == acc.assignmentTypes
       IN StatisticsTotals(gs, i + 1,
            [totalPercentage |-> FracAdd(acc.totalPercentage, pct),
             highestScore |-> IF FracLess(acc.highestScore, pct)
                              THEN pct ELSE acc.highestScore,
             lowestScore |-> IF FracLess(pct, acc.lowestScore)
                             THEN pct ELSE acc.lowestScore,
             assignmentTypes |-> IF type \in DOMAIN types
                                 THEN [types EXCEPT ![type] = @ + 1]
                                 ELSE types @@ (type :> 1)])

getClassroomGradeStatistics(c) ==
  LET gs == findByClassroom(c)
      t == StatisticsTotals(gs, 1,
             [totalPercentage |-> Frac(0, 1),
              highestScore |-> Frac(0, 1),
              lowestScore |-> Frac(100, 1),
              assignmentTypes |-> <<>>])
  IN IF Len(gs) = 0
     THEN [averageScore |-> Zero, highestScore |-> Zero, lowestScore |-> Zero,
           assignmentCount |-> 0, assignmentTypes |-> <<>>]
     ELSE [averageScore |-> toFixed(Frac(t.totalPercentage[1],
                                         t.totalPercentage[2] * Len(gs))),
           highestScore |-> toFixed(t.highestScore),
           lowestScore |-> toFixed(t.lowestScore),
           assignmentCount |-> Len(gs),
           assignmentTypes |-> t.assignmentTypes]

\* The grades a query can meet: score, maxScore, weightage and assignmentType
\* as the Grade schema accepts them (weightage within 0..100, any score), among
\* them a score above maxScore, a negative score and a weightage of 0.
GradeShapes ==
  { [score |-> 8, maxScore |-> 10, weightage |-> 2, assignmentType |-> "quiz"],
    [score |-> 18, maxScore |-> 20, weightage |-> 1, assignmentType |-> "exam"],
    [score |-> 30, maxScore |-> 20, weightage |-> 1, assignmentType |-> "quiz"],
    [score |-> 0 - 5, maxScore |-> 10, weightage |-> 1,
     assignmentType |-> "homework"],
    [score |-> 7, maxScore |-> 20, weightage |-> 0, assignmentType |-> "exam"] }

GradeDocs ==
  {NoGrade} \cup
  { [exists |-> TRUE, studentId |-> s, classroomId |-> c, score |-> g.score,
     maxScore |-> g.maxScore, weightage |-> g.weightage,
     assignmentType |-> g.assignmentType] :
      s \in StudentIds, c \in ClassroomIds, g \in GradeShapes }

InitGrades ==
  /\ InitStore
  /\ users = [u \in UserIds |-> [exists |-> TRUE, role |-> "student"]]
  /\ grades \in [GradeIds -> GradeDocs]
  /\ attendances = [a \in AttendanceIds |-> NoAttendance]
  /\ InitLocals
  /\ InitProbes

CallGetStudentAverage ==
  \E s \in StudentIds, c \in ClassroomIds :
    /\ answer' = [op |-> "getStudentAverage", studentId |-> s,
                  classroomId |-> c, value |-> getStudentAverage(s, c)]
    /\ UNCHANGED <<store, locals, probes, ledger, scratch, before>>

CallGetClassroomGradeStatistics ==
  \E c \in ClassroomIds :
    /\ answer' = [op |-> "getClassroomGradeStatistics", classroomId |-> c,
                  value |-> getClassroomGradeStatistics(c)]
    /\ UNCHANGED <<store, locals, probes, ledger, scratch, before>>

NextGrades == CallGetStudentAverage \/ CallGetClassroomGradeStatistics

SpecGrades == InitGrades /\ [][NextGrades]_vars

\* --------------------------------------------------- attendance statistics
AllStatuses == {"present", "absent", "late", "excused"}

\* {$match: match}, {$unwind: '$records'}: the sub-records of the matching
\* Attendance documents from position i of the collection on, one per element.
\* c = "none" stands for no classroom filter, s = "none" for no filter on
\* 'records.studentId'.
RECURSIVE Unwind(_, _, _)
Unwind(i, c, s) ==
  IF i > Len(AttendanceOrder) THEN <<>>
  ELSE LET doc == attendances[AttendanceOrder[i]]
           tail == Unwind(i + 1, c, s)
       IN IF /\ doc.exists
             /\ (c = "none" \/ doc.classroomId = c)
             /\ (s = "none" \/ some(doc.records, s))
          THEN doc.records \o tail
          ELSE tail

\* {$group: {_id: '$records.status', count: {$sum: 1}}}: one group per status
\* that occurs, given as the function from _id to count.
Group(records) ==
  [st \in {records[i].status : i \in DOMAIN records} |->
     Cardinality({i \in DOMAIN records : records[i].status = st})]

\* Attendance.getClassroomStatistics(classroomId)
getClassroomStatistics(c) == Group(Unwind(1, c, "none"))

\* Attendance.getStudentStatistics(studentId, classroomId): the second $match
\* keeps the student's own sub-records.
getStudentStatistics(s, c) ==
  Group(SelectSeq(Unwind(1, c, s), LAMBDA r : r.studentId = s))

\* stats.forEach(stat => { formattedStats[stat._id] = stat.count;
\*                         formattedStats.total += stat.count }), over the
\* groups D still to visit.
RECURSIVE FormatGroups(_, _, _)
FormatGroups(stats, D, formatted) ==
  IF D = {} THEN formatted
  ELSE LET id == CHOOSE x \in D : TRUE
           set == IF id \in DOMAIN formatted
                  THEN [formatted EXCEPT ![id] = stats[id]]
                  ELSE formatted @@ (id :> stats[id])
       IN FormatGroups(stats, D \ {id},
                       [set EXCEPT !["total"] = @ + stats[id]])

\* The formatted statistics both attendance queries build from the groups.
formattedStats(stats) ==
  LET f == FormatGroups(stats, DOMAIN stats,
             [total |-> 0, present |-> 0, absent |-> 0, late |-> 0, excused |-> 0])
  IN IF f.total > 0
     THEN f @@ [presentPercentage |-> toFixed(Frac(f.present * 100, f.total)),
                absentPercentage |-> toFixed(Frac(f.absent * 100, f.total)),
                latePercentage |-> toFixed(Frac(f.late * 100, f.total)),
                excusedPercentage |-> toFixed(Frac(f.excused * 100, f.total))]
     ELSE f

getClassroomAttendanceStatistics(c) == formattedStats(getClassroomStatistics(c))

getStudentAttendanceStatistics(s, c) == formattedStats(getStudentStatistics(s, c))

\* The records arrays a query can meet: none, one sub-record of either student,
\* or one of each student, each with any status of the enum.
RecordArrays ==
  {<<>>} \cup
  {<<AttendanceRecord(s, st)>> : s \in StudentIds, st \in AllStatuses} \cup
  {<<AttendanceRecord("s1", st), AttendanceRecord("s2", su)>> :
     st \in AllStatuses, su \in AllStatuses}

AttendanceDocs ==
  {NoAttendance} \cup
  {[exists |-> TRUE, classroomId |-> c, date |-> [day |-> 1, hour |-> 0],
    records |-> recs, v |-> 0] : c \in ClassroomIds, recs \in RecordArrays}

\* The Grade collections the statistics queries are run on: no grade, one
\* grade of weightage 0, one grade of weightage 2 with a second of weightage 0.
FewGrades ==
  LET doc(s, c, g) ==
        [exists |-> TRUE, studentId |-> s, classroomId |-> c, score |-> g.score,
         maxScore |-> g.maxScore, weightage |-> g.weightage,
         assignmentType |-> g.assignmentType]
      zero == [score |-> 7, maxScore |-> 20, weightage |-> 0,
               assignmentType |-> "exam"]
      two == [score |-> 8, maxScore |-> 10, weightage |-> 2,
              assignmentType |-> "quiz"]
  IN { [g \in GradeIds |-> NoGrade],
       [g \in GradeIds |-> IF g = "g1" THEN doc("s1", "c1", zero) ELSE NoGrade],
       [g \in GradeIds |-> IF g = "g1" THEN doc("s1", "c1", two)
                           ELSE IF g = "g2" THEN doc("s2", "c1", zero)
                           ELSE NoGrade] }

InitStatistics ==
  /\ InitStore
  /\ users = [u \in UserIds |-> [exists |-> TRUE, role |-> "student"]]
  /\ grades \in FewGrades
  /\ \E d1 \in AttendanceDocs, d2 \in {d \in AttendanceDocs : Len(d.records) <= 1} :
       attendances = [a \in AttendanceIds |->
                        IF a = "a1" THEN d1 ELSE IF a = "a2" THEN d2
                        ELSE NoAttendance]
  /\ InitLocals
  /\ InitProbes

CallGetClassroomAttendanceStatistics ==
  \E c \in ClassroomIds :
    /\ answer' = [op |-> "getClassroomAttendanceStatistics", classroomId |-> c,
                  value |-> getClassroomAttendanceStatistics(c)]
    /\ UNCHANGED <<store, locals, probes, ledger, scratch, before>>

CallGetStudentAttendanceStatistics ==
  \E s \in StudentIds, c \in ClassroomIds \cup {"none"} :
    /\ answer' = [op |-> "getStudentAttendanceStatistics", studentId |-> s,
                  classroomId |-> c,
                  value |-> getStudentAttendanceStatistics(s, c)]
    /\ UNCHANGED <<store, locals, probes, ledger, scratch, before>>

NextStatistics ==
  \/ CallGetStudentAverage
  \/ CallGetClassroomGradeStatistics
  \/ CallGetClassroomAttendanceStatistics
  \/ CallGetStudentAttendanceStatistics

SpecStatistics == InitStatistics /\ [][NextStatistics]_vars

\* ------------------------------------------ attendance writes and statistics
\* One attendance document of classroom c1 with a sub-record for each student.
InitRoster ==
  /\ classrooms = [c \in ClassroomIds |->
                     IF c = "c1" THEN NewClassroom("t1", Undefined) ELSE NoClassroom]
  /\ students = [s \in StudentIds |-> NewStudent(IF s = "s1" THEN "u1" ELSE "u2")]
  /\ teachers = [t \in TeacherIds |->
                   IF t = "t1" THEN [NewTeacher("u3") EXCEPT !.classrooms = <<"c1">>]
                   ELSE NoTeacher]
  /\ users = [u \in UserIds |-> [exists |-> TRUE, role |-> "student"]]
  /\ grades = [g \in GradeIds |-> NoGrade]
  /\ attendances = [a \in AttendanceIds |->
                      IF a = "a1"
                      THEN [exists |-> TRUE, classroomId |-> "c1",
                            date |-> [day |-> 1, hour |-> 0],
                            records |-> <<AttendanceRecord("s1", "present"),
                                          AttendanceRecord("s2", "late")>>,
                            v |-> 0]
                      ELSE NoAttendance]
  /\ allocated = {"c1", "a1"}
  /\ InitLocals
  /\ InitProbes

NextRoster ==
  \/ \E p \in Procs :
       \/ CallAttendanceService(p)
       \/ AttendanceServiceStep(p)
  \/ CallGetClassroomAttendanceStatistics

SpecRoster == InitRoster /\ [][NextRoster]_vars

\* ------------------------------------------------------------ grade writes
\* Dates of a grade are days; NoDay stands for an absent dueDate and, in
\* update data, Keep for a field the update does not mention.
GradeDays == {1, 2}
NoDay == 0
Keep == 0 - 1

\* A Grade document with its submissionDate, dueDate and lateSubmission.
DatedGrade(submissionDate, dueDate, lateSubmission) ==
  [submissionDate |-> submissionDate, dueDate |-> dueDate,
   lateSubmission |-> lateSubmission] @@
  [NoGrade EXCEPT !.exists = TRUE, !.studentId = "s1", !.classroomId = "c1",
                  !.score = 8, !.maxScore = 10, !.weightage = 1,
                  !.assignmentType = "quiz"]

\* GradeSchema.pre('save'): a grade with a dueDate that was submitted after it
\* is flagged late.
preSave(doc) ==
  IF doc.dueDate /= NoDay /\ doc.submissionDate > doc.dueDate
  THEN [doc EXCEPT !.lateSubmission = TRUE]
  ELSE doc

\* createGrade(gradeData): Grade.create runs the save middleware.
createGrade ==
  /\ GradeIds \ allocated /= {}
  /\ \E submissionDate \in GradeDays, dueDate \in GradeDays \cup {NoDay},
        lateSubmission \in BOOLEAN :
       LET g == CHOOSE x \in GradeIds \ allocated : TRUE IN
       /\ grades' = [grades EXCEPT ![g] =
                       preSave(DatedGrade(submissionDate, dueDate, lateSubmission))]
       /\ allocated' = allocated \cup {g}
  /\ UNCHANGED <<classrooms, students, teachers, users, attendances, locals,
                 probes, scratch, before, answer>>

\* updateGrade(id, updateData): Grade.findByIdAndUpdate sets the fields named
\* in updateData on the stored document; query middleware only, the save
\* middleware does not run.  A missing grade is reported and nothing is written.
updateGrade ==
  \E g \in GradeIds, submissionDate \in GradeDays \cup {Keep},
     dueDate \in GradeDays \cup {Keep} :
    /\ grades' = IF grades[g].exists
                 THEN [grades EXCEPT
                         ![g].submissionDate =
                            IF submissionDate = Keep THEN @ ELSE submissionDate,
                         ![g].dueDate = IF dueDate = Keep THEN @ ELSE dueDate]
                 ELSE grades
    /\ UNCHANGED <<store, users, attendances, locals, probes, scratch, before,
                   answer>>

NextGradeWrites == createGrade \/ updateGrade

SpecGradeWrites == Init /\ [][NextGradeWrites]_vars

\* ------------------------------------------- the two enrollment entry points
\* What a call that runs alone returns and leaves behind, given the student and
\* classroom documents it reads: the kind of outcome, the classroom's students
\* array and the student's classrooms array after the call.
Outcome(kind, classroom, student) ==
  [kind |-> kind, students |-> classroom.students, classrooms |-> student.classrooms]

\* StudentService.enrollInClassroom(studentId, classroomId)
enrollInClassroom(student, classroom, s, c) ==
  IF ~student.exists THEN Outcome("NotFound", classroom, student)
  ELSE IF ~classroom.exists THEN Outcome("NotFound", classroom, student)
  ELSE IF Includes(classroom.students, s) THEN Outcome("Conflict", classroom, student)
  ELSE IF isAtCapacity(classroom)
    THEN Outcome("CapacityExceeded", classroom, student)
  ELSE Outcome("ok", [classroom EXCEPT !.students = Push(@, s)],
                     [student EXCEPT !.classrooms = Push(@, c)])

\* ClassroomService.addStudentToClassroom(classroomId, studentId)
addStudentToClassroom(student, classroom, s, c) ==
  IF ~classroom.exists THEN Outcome("NotFound", classroom, student)
  ELSE IF isAtCapacity(classroom)
    THEN Outcome("CapacityExceeded", classroom, student)
  ELSE IF ~student.exists THEN Outcome("NotFound", classroom, student)
  ELSE IF Includes(classroom.students, s) THEN Outcome("Conflict", classroom, student)
  ELSE Outcome("ok", [classroom EXCEPT !.students = Push(@, s)],
                     [student EXCEPT !.classrooms = Push(@, c)])

\* StudentService.withdrawFromClassroom(studentId, classroomId)
withdrawFromClassroom(student, classroom, s, c) ==
  IF ~student.exists THEN Outcome("NotFound", classroom, student)
  ELSE IF ~classroom.exists THEN Outcome("NotFound", classroom, student)
  ELSE IF ~Includes(classroom.students, s)
    THEN Outcome("Conflict", classroom, student)
  ELSE Outcome("ok", [classroom EXCEPT !.students = Pull(@, s)],
                     [student EXCEPT !.classrooms = Pull(@, c)])

\* ClassroomService.removeStudentFromClassroom(classroomId, studentId)
removeStudentFromClassroom(student, classroom, s, c) ==
  IF ~classroom.exists THEN Outcome("NotFound", classroom, student)
  ELSE IF ~student.exists THEN Outcome("NotFound", classroom, student)
  ELSE Outcome("ok", [classroom EXCEPT !.students = Pull(@, s)],
                     [student EXCEPT !.classrooms = Pull(@, c)])

\* The stored states the entry points are compared on: classroom c1 missing or
\* present with any capacity and any students array up to MaxLen, each student
\* missing or present and listing c1 or not.
InitEntryPoints ==
  /\ \E cls \in {NoClassroom} \cup
                {[NewClassroom("t1", cap) EXCEPT !.students = arr] :
                   cap \in CapValues, arr \in Arrays(MaxLen - 1)} :
       classrooms = [c \in ClassroomIds |-> IF c = "c1" THEN cls ELSE NoClassroom]
  /\ \E s1 \in {NoStudent, NewStudent("u1"),
                [NewStudent("u1") EXCEPT !.classrooms = <<"c1">>]},
        s2 \in {NoStudent, NewStudent("u2"),
                [NewStudent("u2") EXCEPT !.classrooms = <<"c1">>]} :
       students = [s \in StudentIds |-> IF s = "s1" THEN s1 ELSE s2]
  /\ teachers = [t \in TeacherIds |->
                   IF t = "t1" THEN [NewTeacher("u3") EXCEPT !.classrooms = <<"c1">>]
                   ELSE NoTeacher]
  /\ allocated = {"c1", "s1", "s2"}
  /\ InitLedger
  /\ InitLocals
  /\ InitProbes

\* The same (studentId, classroomId) is given to both enrollment entry points.
CallEnrollBoth ==
  \E s \in StudentIds, c \in ClassroomIds :
    /\ answer' = [op |-> "enroll", studentId |-> s, classroomId |-> c,
                  studentService |->
                    enrollInClassroom(students[s], classrooms[c], s, c),
                  classroomService |->
                    addStudentToClassroom(students[s], classrooms[c], s, c)]
    /\ UNCHANGED <<store, locals, probes, ledger, scratch, before>>

\* The same (studentId, classroomId) is given to both withdrawal entry points.
CallWithdrawBoth ==
  \E s \in StudentIds, c \in ClassroomIds :
    /\ answer' = [op |-> "withdraw", studentId |-> s, classroomId |-> c,
                  studentService |->
                    withdrawFromClassroom(students[s], classrooms[c], s, c),
                  classroomService |->
                    removeStudentFromClassroom(students[s], classrooms[c], s, c)]
    /\ UNCHANGED <<store, locals, probes, ledger, scratch, before>>

NextEntryPoints == CallEnrollBoth \/ CallWithdrawBoth

SpecEntryPoints == InitEntryPoints /\ [][NextEntryPoints]_vars

\* ------------------------------------------------- pairs of StudentService calls
\* Classroom c1 with or without a capacity, student s2 enrolled in it (on both
\* sides) or not, student s1 not enrolled.
InitPair ==
  /\ \E cap \in CapValues \ {0}, enrolled \in BOOLEAN :
       /\ classrooms = [c \in ClassroomIds |->
            IF c = "c1"
            THEN [NewClassroom("t1", cap) EXCEPT
                    !.students = IF enrolled THEN <<"s2">> ELSE <<>>]
            ELSE NoClassroom]
       /\ students = [s \in StudentIds |->
            IF s = "s1" THEN NewStudent("u1")
            ELSE [NewStudent("u2") EXCEPT
                    !.classrooms = IF enrolled THEN <<"c1">> ELSE <<>>]]
  /\ teachers = [t \in TeacherIds |->
                   IF t = "t1" THEN [NewTeacher("u3") EXCEPT !.classrooms = <<"c1">>]
                   ELSE NoTeacher]
  /\ allocated = {"c1"}
  /\ InitLedger
  /\ InitLocals
  /\ InitProbes

NextPair ==
  \E p \in Procs :
    \/ CallStudentService(p)
    \/ StudentServiceStep(p)

SpecPair == InitPair /\ [][NextPair]_vars

\* ----------------------------------------------------------------- claims
Quiescent == InFlight = {}

Done(p) == pc[p] = "done"

CapacitySet(doc) == doc.exists /\ doc.maxCapacity /= Undefined

Enrolled(s, c) == classrooms[c].exists /\ Includes(classrooms[c].students, s)

Lists(s, c) == students[s].exists /\ Includes(students[s].classrooms, c)

Concurrent(p, q) == p \in overlap[q] \/ q \in overlap[p]

\* No other call was in flight at any time during p's call.
Alone(p) == \A q \in Procs \ {p} : ~Concurrent(p, q)

\* The students array of a classroom document as a set.
StudentSet(doc) == {doc.students[i] : i \in DOMAIN doc.students}

\* C1: once the enroll and withdraw calls have ended, every classroom with a
\* maxCapacity holds at most maxCapacity students, also when the calls ran
\* concurrently.
C1_CapacityAfterEnrollment ==
  Quiescent =>
    \A c \in ClassroomIds :
      CapacitySet(classrooms[c]) =>
        Cardinality(StudentSet(classrooms[c])) <= classrooms[c].maxCapacity

\* C2: two concurrent enroll calls for different students that both read the
\* classroom one seat from its capacity do not both succeed.
OneSeatLeft(doc) ==
  CapacitySet(doc) /\ Len(doc.students) + 1 = doc.maxCapacity

C2_LastSeatGoesToOne ==
  \A p, q \in Procs :
    (/\ p /= q
     /\ Done(p) /\ Done(q)
     /\ Concurrent(p, q)
     /\ req[p].op \in EnrollOps /\ req[q].op \in EnrollOps
     /\ req[p].classroomId = req[q].classroomId
     /\ req[p].studentId /= req[q].studentId
     /\ OneSeatLeft(clsSnap[p]) /\ OneSeatLeft(clsSnap[q]))
    => ~(result[p] = "ok" /\ result[q] = "ok")

\* C3: when the enroll, withdraw and deleteClassroom calls have completed, a
\* student lists a classroom exactly when the classroom lists the student.
C3_BidirectionalConsistency ==
  Quiescent =>
    \A s \in StudentIds, c \in ClassroomIds : Lists(s, c) <=> Enrolled(s, c)

\* C4: an enroll call that has ended persisted both of its writes (the
\* classroom's and the student's) or neither.
C4_EnrollAllOrNothing ==
  \A p \in Procs :
    Done(p) /\ req[p].op \in EnrollOps =>
      saved[p] \in {{}, {"classroom", "student"}}

\* C5: an enroll call for a student the classroom already lists fails with
\* Conflict and writes nothing, whatever the capacity, through both services.
C5_SecondEnrollConflicts ==
  \A p \in Procs :
    (/\ Done(p) /\ Alone(p)
     /\ req[p].op \in EnrollOps
     /\ clsSnap[p].exists
     /\ Includes(clsSnap[p].students, req[p].studentId))
    => result[p] = "Conflict" /\ saved[p] = {}

\* C6: an enroll call for an existing student not yet enrolled in a classroom
\* whose enrollment count has reached its maxCapacity fails with
\* CapacityExceeded and writes nothing.
C6_FullClassroomRejects ==
  \A p \in Procs :
    (/\ Done(p) /\ Alone(p)
     /\ req[p].op \in EnrollOps
     /\ students[req[p].studentId].exists
     /\ CapacitySet(clsSnap[p])
     /\ Len(clsSnap[p].students) >= clsSnap[p].maxCapacity
     /\ ~Includes(clsSnap[p].students, req[p].studentId))
    => result[p] = "CapacityExceeded" /\ saved[p] = {}

\* C7: in every state, under createClassroom, updateClassroom, enroll and
\* withdraw, a classroom with a maxCapacity has enrollmentCount <= maxCapacity.
C7_CapacityInvariant ==
  \A c \in ClassroomIds :
    classrooms[c].exists =>
      \/ classrooms[c].maxCapacity = Undefined
      \/ /\ enrollmentCount(classrooms[c]) <= classrooms[c].maxCapacity
         /\ Cardinality(StudentSet(classrooms[c])) <= classrooms[c].maxCapacity

\* C8: isAtCapacity is false exactly when no maxCapacity is configured, and is
\* (enrolled count >= maxCapacity) for every configured value, 0 included.
C8_IsAtCapacityPolicy ==
  probeResult /= "none" =>
    probeResult =
      IF probe.maxCapacity = Undefined THEN "false"
      ELSE IF Len(probe.students) >= probe.maxCapacity THEN "true" ELSE "false"

\* C9: a withdraw call for an existing student the existing classroom does not
\* list fails with Conflict and writes nothing, through both services.
C9_WithdrawNotEnrolledConflicts ==
  \A p \in Procs :
    (/\ Done(p) /\ Alone(p)
     /\ req[p].op \in WithdrawOps
     /\ clsSnap[p].exists /\ stuSnap[p].exists
     /\ ~Includes(clsSnap[p].students, req[p].studentId))
    => result[p] = "Conflict" /\ saved[p] = {}

\* C10: after deleteClassroom(c) has returned success the classroom document is
\* gone and neither its teacher nor any student lists c, students whose enroll
\* overlapped the delete included.
C10_DeleteRemovesAllReferences ==
  \A p \in Procs :
    Done(p) /\ req[p].op = "deleteClassroom" /\ result[p] = "ok" =>
      /\ ~classrooms[req[p].classroomId].exists
      /\ \A t \in TeacherIds : ~Includes(teachers[t].classrooms, req[p].classroomId)
      /\ \A s \in StudentIds : ~Includes(students[s].classrooms, req[p].classroomId)

\* C11: every step of a deleteClassroom call other than its successful commit
\* leaves the Teacher, Student and Classroom records as they are, so a call
\* that fails at any step (classroom not found, teacher update, student
\* updates, classroom delete) has changed nothing.
C11_DeleteAbortsWhole ==
  [][\A p \in Procs :
       (/\ pc'[p] /= pc[p]
        /\ req'[p].op = "deleteClassroom"
        /\ ~(pc[p] = "commit" /\ result'[p] = "ok"))
       => UNCHANGED <<classrooms, students, teachers>>]_vars

\* A deleteClassroom call on a classroom with a teacher and a student failed
\* and the three records still reference each other.
C11_Witness ==
  \E p \in Procs :
    /\ Done(p) /\ req[p].op = "deleteClassroom" /\ result[p] = "StoreError"
    /\ clsSnap[p].exists /\ clsSnap[p].students /= <<>>
    /\ classrooms[req[p].classroomId] = clsSnap[p]
    /\ Includes(teachers[clsSnap[p].teacherId].classrooms, req[p].classroomId)
    /\ \A i \in DOMAIN clsSnap[p].students :
         Includes(students[clsSnap[p].students[i]].classrooms, req[p].classroomId)

\* C12: at most one Attendance record exists per classroom and calendar day,
\* whatever the times of day of the dates given to createAttendance and also
\* when creates run concurrently.
C12_OneAttendancePerDay ==
  \A a, b \in AttendanceIds :
    (/\ a /= b
     /\ attendances[a].exists /\ attendances[b].exists
     /\ attendances[a].classroomId = attendances[b].classroomId)
    => attendances[a].date.day /= attendances[b].date.day

ProfilesOfType(op, u) == IF op = "createStudent" THEN StudentsOf(u) ELSE TeachersOf(u)

C14_CreateProfileContract ==
  [][\A p \in Procs :
       (/\ ~Done(p) /\ Done(p)'
        /\ req[p].op \in {"createStudent", "createTeacher"})
       => LET u == req[p].userId
              op == req[p].op IN
          /\ (Alone(p) /\ ~users[u].exists)
               => /\ result'[p] = "NotFound" /\ saved'[p] = {}
                  /\ UNCHANGED <<users, students, teachers>>
          /\ (Alone(p) /\ users[u].exists /\ ProfilesOfType(op, u) /= {})
               => /\ result'[p] = "Conflict" /\ saved'[p] = {}
                  /\ UNCHANGED <<users, students, teachers>>
          /\ result'[p] = "ok"
               => /\ Cardinality(ProfilesOfType(op, u)') = 1
                  /\ Alone(p) => users'[u].role = RoleOf(op)]_vars

\* createStudent succeeded for an admin without a profile, whose role it
\* wrote, and another create call ended in Conflict.
C14_Witness ==
  \E p, q \in Procs :
    /\ Done(p) /\ req[p].op = "createStudent" /\ result[p] = "ok"
    /\ usrSnap[p].role = "admin"
    /\ users[req[p].userId].role = "student"
    /\ Cardinality(StudentsOf(req[p].userId)) = 1
    /\ Done(q) /\ req[q].op \in {"createStudent", "createTeacher"}
    /\ result[q] = "Conflict"

\* C15: in every state every user has at most one profile, counting Student
\* and Teacher profiles together.
C15_AtMostOneProfile ==
  \A u \in UserIds : Cardinality(StudentsOf(u)) + Cardinality(TeachersOf(u)) <= 1

\* C16: deleteTeacher fails with Conflict and changes nothing while a classroom
\* has the teacher as teacherId, deleteStudent fails with Conflict and changes
\* nothing while the student's classrooms array is non-empty, and no step
\* removes a Student that lists or is listed by a classroom, or a Teacher that
\* a classroom names as its teacherId.
Owns(t, c) == classrooms[c].exists /\ classrooms[c].teacherId = t

C16_InUseDeletionBlocked ==
  [][/\ \A p \in Procs :
          (~Done(p) /\ Done(p)' /\ req[p].op = "deleteStudent"
             /\ stuSnap'[p].exists /\ stuSnap'[p].classrooms /= <<>>)
          => /\ result'[p] = "Conflict" /\ saved'[p] = {}
             /\ UNCHANGED <<students, grades, attendances>>
     /\ \A p \in Procs :
          (~Done(p) /\ Done(p)' /\ req[p].op = "deleteTeacher" /\ Alone(p)
             /\ teachers[req[p].teacherId].exists
             /\ \E c \in ClassroomIds : Owns(req[p].teacherId, c))
          => /\ result'[p] = "Conflict" /\ saved'[p] = {}
             /\ UNCHANGED <<teachers, users>>
     /\ \A s \in StudentIds :
          (students[s].exists /\ ~students'[s].exists)
          => /\ students[s].classrooms = <<>>
             /\ \A c \in ClassroomIds : ~Enrolled(s, c)
     /\ \A t \in TeacherIds :
          (teachers[t].exists /\ ~teachers'[t].exists)
          => \A c \in ClassroomIds : ~Owns(t, c)]_vars

\* C17: when deleteStudent(s) has succeeded for a student with no classrooms,
\* no Grade of s and no attendance sub-record of s is left, every Attendance
\* document that held only sub-records of s is deleted, and the other grades
\* and sub-records are as they were when the call started.
C17_DeleteStudentCascade ==
  [][\A p \in Procs :
       (/\ ~Done(p) /\ Done(p)' /\ Alone(p)
        /\ req[p].op = "deleteStudent" /\ result'[p] = "ok")
       => LET s == req[p].studentId IN
          /\ ~students'[s].exists
          /\ \A g \in GradeIds :
               grades'[g] = IF before[p].grades[g].studentId = s THEN NoGrade
                            ELSE before[p].grades[g]
          /\ \A a \in AttendanceIds :
               LET old == before[p].attendances[a]
                   others == PullRecords(old.records, s) IN
               /\ attendances'[a].exists => ~some(attendances'[a].records, s)
               /\ IF old.exists /\ old.records /= <<>> /\ others = <<>>
                  THEN ~attendances'[a].exists
                  ELSE /\ attendances'[a].exists = old.exists
                       /\ attendances'[a].records = others]_vars

\* deleteStudent(s1) succeeded with no other call in flight: the grade of s1 and
\* the attendance document holding only s1 are gone, the other document keeps
\* the sub-record of s2.
C17_Witness ==
  \E p \in Procs :
    /\ Done(p) /\ Alone(p) /\ req[p].op = "deleteStudent" /\ result[p] = "ok"
    /\ before[p].grades["g1"].exists /\ ~grades["g1"].exists /\ grades["g2"].exists
    /\ before[p].attendances["a1"].exists /\ ~attendances["a1"].exists
    /\ attendances["a2"].records = <<AttendanceRecord("s2", "late")>>
    /\ ~students[req[p].studentId].exists

\* C18: a deleteStudent, createStudent or createTeacher call that fails, at
\* whichever step, leaves the stored users, grades, attendance documents and
\* profiles as they were when the call started.
C18_FailedMutationRollsBack ==
  [][\A p \in Procs :
       (/\ ~Done(p) /\ Done(p)' /\ Alone(p)
        /\ req[p].op \in {"deleteStudent", "createStudent", "createTeacher"}
        /\ result'[p] /= "ok")
       => /\ users' = before[p].users
          /\ grades' = before[p].grades
          /\ attendances' = before[p].attendances
          /\ saved'[p] = {}]_vars

\* The Grade documents of student s in classroom c, and of classroom c.
GradesOf(s, c) ==
  {g \in GradeIds : grades[g].exists /\ grades[g].studentId = s
                                     /\ grades[g].classroomId = c}

GradesIn(c) == {g \in GradeIds : grades[g].exists /\ grades[g].classroomId = c}

RECURSIVE SumWeightage(_)
SumWeightage(G) ==
  IF G = {} THEN 0
  ELSE LET g == CHOOSE x \in G : TRUE
       IN grades[g].weightage + SumWeightage(G \ {g})

\* Sum over G of percentage * weight, the weight being the weightage or 1.
RECURSIVE SumPercentage(_, _)
SumPercentage(G, weighted) ==
  IF G = {} THEN Frac(0, 1)
  ELSE LET g == CHOOSE x \in G : TRUE
           w == IF weighted THEN grades[g].weightage ELSE 1
       IN FracAdd(Frac(grades[g].score * 100 * w, grades[g].maxScore),
                  SumPercentage(G \ {g}, weighted))

\* v shows the fraction a rounded to 2 decimals: no number of hundredths is
\* nearer to a than v.hundredths.
RoundedTo2(v, a) == 2 * Abs(v.hundredths * a[2] - 100 * a[1]) <= a[2]

RECURSIVE SumCounts(_, _)
SumCounts(f, D) ==
  IF D = {} THEN 0
  ELSE LET t == CHOOSE x \in D : TRUE IN f[t] + SumCounts(f, D \ {t})

\* C20: for a classroom with at least one grade, getClassroomGradeStatistics
\* returns assignmentCount = number of its grades, averageScore = unweighted
\* mean of their percentages, lowestScore = least and highestScore = greatest
\* percentage among them (each rounded to 2 decimals), and assignmentTypes
\* counts that sum to assignmentCount.
C20_ClassroomStatistics ==
  answer.op = "getClassroomGradeStatistics" =>
    LET G == GradesIn(answer.classroomId)
        total == SumPercentage(G, FALSE)
        v == answer.value
    IN G /= {} =>
         /\ v.assignmentCount = Cardinality(G)
         /\ RoundedTo2(v.averageScore, Frac(total[1], total[2] * Cardinality(G)))
         /\ \E g \in G :
              /\ \A h \in G : ~FracLess(percentage(grades[h]), percentage(grades[g]))
              /\ RoundedTo2(v.lowestScore, percentage(grades[g]))
         /\ \E g \in G :
              /\ \A h \in G : ~FracLess(percentage(grades[g]), percentage(grades[h]))
              /\ RoundedTo2(v.highestScore, percentage(grades[g]))
         /\ SumCounts(v.assignmentTypes, DOMAIN v.assignmentTypes)
              = v.assignmentCount

\* The number of sub-records with status st in the Attendance documents of
\* classroom c (any classroom for "none") that belong to student s (any
\* student for "none").
SubRecords(c, s, st) ==
  Cardinality({<<a, i>> \in AttendanceIds \X (1..MaxLen) :
                 /\ attendances[a].exists
                 /\ (c = "none" \/ attendances[a].classroomId = c)
                 /\ i \in DOMAIN attendances[a].records
                 /\ (s = "none" \/ attendances[a].records[i].studentId = s)
                 /\ attendances[a].records[i].status = st})

\* C21: on empty input the aggregations return zeroed structures:
\* getStudentAverage returns the number 0 when no grade matches or the matching
\* grades have a weight sum of 0; getClassroomGradeStatistics returns
\* {averageScore: 0, highestScore: 0, lowestScore: 0, assignmentCount: 0,
\* assignmentTypes: {}} for a classroom without grades; the attendance
\* statistics return total 0 and every status count 0 when no sub-record
\* matches.
C21_EmptyInputZeroed ==
  /\ answer.op = "getStudentAverage" =>
       LET G == GradesOf(answer.studentId, answer.classroomId)
       IN (G = {} \/ SumWeightage(G) = 0) => answer.value = Zero
  /\ answer.op = "getClassroomGradeStatistics" =>
       (GradesIn(answer.classroomId) = {} =>
          answer.value = [averageScore |-> Zero, highestScore |-> Zero,
                          lowestScore |-> Zero, assignmentCount |-> 0,
                          assignmentTypes |-> <<>>])
  /\ answer.op \in {"getClassroomAttendanceStatistics",
                    "getStudentAttendanceStatistics"} =>
       LET s == IF answer.op = "getStudentAttendanceStatistics"
                THEN answer.studentId ELSE "none"
       IN (\A st \in AllStatuses : SubRecords(answer.classroomId, s, st) = 0) =>
            answer.value = [total |-> 0, present |-> 0, absent |-> 0,
                            late |-> 0, excused |-> 0]

\* C21 witness: getStudentAverage met a matching grade, every matching grade
\* had weightage 0, and it returned 0.
C21_Witness ==
  /\ answer.op = "getStudentAverage"
  /\ LET G == GradesOf(answer.studentId, answer.classroomId)
     IN G /= {} /\ SumWeightage(G) = 0
  /\ answer.value = Zero

PercentageFields ==
  {"presentPercentage", "absentPercentage", "latePercentage", "excusedPercentage"}

\* The answer of getClassroomAttendanceStatistics agrees with the stored
\* Attendance documents.
ClassroomAttendanceCounts ==
  LET v == answer.value IN
  /\ \A st \in AllStatuses : v[st] = SubRecords(answer.classroomId, "none", st)
  /\ v.total = v.present + v.absent + v.late + v.excused
  /\ IF v.total > 0 THEN PercentageFields \subseteq DOMAIN v
     ELSE PercentageFields \cap DOMAIN v = {}

\* C23: getClassroomAttendanceStatistics(c) returns for each status of
\* {present, absent, late, excused} the number of sub-records with that status
\* in the Attendance documents of classroom c alone, total is the sum of the
\* four counts, and the percentage fields are present exactly when total > 0.
C23_ClassroomAttendanceCounts ==
  [][CallGetClassroomAttendanceStatistics => ClassroomAttendanceCounts']_vars

\* C22: after every grade write (createGrade, updateGrade) every stored Grade
\* that has a dueDate and a submissionDate after it has lateSubmission = true.
C22_LateFlag ==
  \A g \in GradeIds :
    (grades[g].exists /\ grades[g].dueDate /= NoDay
       /\ grades[g].submissionDate > grades[g].dueDate)
      => grades[g].lateSubmission

\* The sub-records of student t in a records array, in order.
RecordsOf(records, t) == SelectSeq(records, LAMBDA r : r.studentId = t)

\* C24: the write of updateStudentAttendance(id, s, data) leaves the
\* sub-records of every student other than s in that Attendance document
\* unchanged, also when the document was changed by another call between the
\* read and the write.
C24_OnlyOwnSubRecord ==
  [][\A p \in Procs :
       (/\ pc[p] = "attendance_findByIdAndUpdate"
        /\ req[p].op = "updateStudentAttendance"
        /\ Done(p)')
       => \A t \in StudentIds \ {req[p].studentId} :
            RecordsOf(attendances'[req[p].attendanceId].records, t)
              = RecordsOf(attendances[req[p].attendanceId].records, t)]_vars

\* C30: every Attendance document holds at most one sub-record per student.
C30_OneSubRecordPerStudent ==
  \A a \in AttendanceIds : \A s \in StudentIds :
    attendances[a].exists => Len(RecordsOf(attendances[a].records, s)) <= 1

\* C25: whenever addStudentToClassroom, removeStudentFromClassroom or
\* createClassroom finishes with an error, none of that call's writes is
\* persisted; in particular no error is reported after the commit.
C25_ErrorMeansNothingWritten ==
  [][\A p \in Procs :
       (/\ ~Done(p) /\ Done(p)'
        /\ req[p].op \in {"addStudentToClassroom", "removeStudentFromClassroom",
                          "createClassroom"}
        /\ result'[p] /= "ok")
       => saved'[p] = {}]_vars

\* C26: in every reachable state the teacherId of each Classroom refers to an
\* existing Teacher.
C26_TeacherExists ==
  \A c \in ClassroomIds :
    classrooms[c].exists => teachers[classrooms[c].teacherId].exists

\* C29: in every reachable state every id stored in a Classroom's students
\* array refers to an existing Student.
C29_EnrolledStudentsExist ==
  \A c \in ClassroomIds :
    classrooms[c].exists =>
      \A i \in DOMAIN classrooms[c].students :
        students[classrooms[c].students[i]].exists

\* C27: given the same stored state and the same (studentId, classroomId),
\* StudentService.enrollInClassroom and ClassroomService.addStudentToClassroom
\* yield the same kind of outcome and the same resulting Classroom.students and
\* Student.classrooms; likewise withdrawFromClassroom and
\* removeStudentFromClassroom.
C27_EntryPointsEquivalent ==
  answer.op \in {"enroll", "withdraw"} =>
    answer.studentService = answer.classroomService

\* Calls p and q overlapped, both are StudentService calls on one classroom
\* for different students that reported success, p an enrollment and q an
\* enrollment or a withdrawal.
BothSucceeded(p, q) ==
  /\ p /= q
  /\ Done(p) /\ Done(q)
  /\ Concurrent(p, q)
  /\ req[p].op = "enrollInClassroom"
  /\ req[q].op \in {"enrollInClassroom", "withdrawFromClassroom"}
  /\ req[p].classroomId = req[q].classroomId
  /\ req[p].studentId /= req[q].studentId
  /\ result[p] = "ok" /\ result[q] = "ok"

\* The classroom's students array reflects both calls and agrees with the
\* classrooms arrays of both students.
ReflectsBoth(p, q) ==
  LET c == req[p].classroomId
      a == req[p].studentId
      b == req[q].studentId IN
  /\ Enrolled(a, c)
  /\ Enrolled(b, c) <=> req[q].op = "enrollInClassroom"
  /\ Lists(a, c) <=> Enrolled(a, c)
  /\ Lists(b, c) <=> Enrolled(b, c)

\* C28: when the only two calls made are concurrent StudentService calls on
\* one classroom for different students (enroll with enroll, or enroll with
\* withdraw) and both reported success, Classroom.students reflects both
\* changes and agrees with both students' classrooms arrays.
C28_NoLostUpdate ==
  \A p, q \in Procs :
    (calls = 2 /\ BothSucceeded(p, q)) => ReflectsBoth(p, q)

\* C28 witness: an enrollment and a withdrawal on one classroom overlapped and
\* both reported success.
C28_Witness ==
  \E p, q \in Procs :
    /\ calls = 2
    /\ BothSucceeded(p, q)
    /\ req[q].op = "withdrawFromClassroom"
    /\ ReflectsBoth(p, q)

====
